---------------------------- MODULE Spec2Model ----------------------------
(***************************************************************************)
(* Model of the chat widget's outbound request pipeline:                   *)
(*   - the Request Executor, sendChatMessage / processResponse             *)
(*     (src/src/controllers/ChatController.ts);                            *)
(*   - the Retry Orchestrator, sendWebhookMessage                          *)
(*     (the WebhookController part of src/src/services/api.ts).            *)
(* One behaviour is one call of an exported entry point, followed step by  *)
(* step through its awaits: an action is the code that runs between two    *)
(* awaits, and a timer callback runs only while the caller is suspended.   *)
(* Strings that the code trims or parses are sequences of lexemes; every   *)
(* other string is a TLA+ string.  Time is not measured: a pending timer   *)
(* may fire at any moment the event loop is free.  The outer catch of      *)
(* sendChatMessage (ChatController.ts 452-484) has no action: nothing it   *)
(* guards throws outside the inner try.  Of the logger calls, those of     *)
(* sendChatMessage and processResponse are recorded (logCalls).            *)
(***************************************************************************)
EXTENDS Integers, Sequences, FiniteSets, TLC

\* ------------------------------------------------------------------ bounds
\* Largest maxRetries option the model enumerates.
MaxRetriesOpt == 2
\* Longest run of blanks around a prompt the model enumerates.
MaxPad == 1

\* The Logger's clock runs from 0 to MaxClock seconds.
MaxClock == 1

\* The session functions are called at most MaxCalls times.
MaxCalls == 4

\* No log file grows beyond MaxFileSize entries.
MaxFileSize == 3

\* At most MaxFaults log calls of a run meet a failing file operation that
\* is not simply a missing file.
MaxFaults == 1

\* ------------------------------------------------------- program constants
MAX_RETRIES == 2
RETRY_DELAY == 1000

\* ---------------------------------------------------------------- ErrorType
NETWORK_ERROR == "NETWORK_ERROR"
SERVER_ERROR == "SERVER_ERROR"
TIMEOUT_ERROR == "TIMEOUT_ERROR"
AUTH_ERROR == "AUTH_ERROR"
RATE_LIMIT_ERROR == "RATE_LIMIT_ERROR"
VALIDATION_ERROR == "VALIDATION_ERROR"
UNKNOWN_ERROR == "UNKNOWN_ERROR"

ErrorType ==
  {NETWORK_ERROR, SERVER_ERROR, TIMEOUT_ERROR, AUTH_ERROR, RATE_LIMIT_ERROR,
   VALIDATION_ERROR, UNKNOWN_ERROR}

\* The terminal user-facing message of each kind (ASCII transliterations).
USER_FRIENDLY_MESSAGES ==
  [t \in ErrorType |->
     CASE t = NETWORK_ERROR -> "Khong the ket noi toi may chu. Vui long kiem tra ket noi internet cua ban va thu lai sau."
       [] t = SERVER_ERROR -> "He thong dang duoc bao tri. Vui long thu lai sau it phut."
       [] t = TIMEOUT_ERROR -> "May chu dang phan hoi cham. Vui long thu lai sau."
       [] t = AUTH_ERROR -> "Phien lam viec cua ban da het han. Vui long lam moi trang va dang nhap lai."
       [] t = RATE_LIMIT_ERROR -> "Ban da gui qua nhieu yeu cau. Vui long doi mot lat roi thu lai."
       [] t = VALIDATION_ERROR -> "Thong tin ban nhap khong hop le. Vui long kiem tra lai."
       [] OTHER -> "Da xay ra loi khong xac dinh. Vui long thu lai sau."]

\* The "retrying" notice of each kind.
USER_RETRY_MESSAGES ==
  [t \in ErrorType |->
     CASE t = NETWORK_ERROR -> "Ket noi mang khong on dinh. He thong dang thu ket noi lai..."
       [] t = SERVER_ERROR -> "May chu dang tam thoi qua tai. He thong dang thu ket noi lai..."
       [] t = TIMEOUT_ERROR -> "May chu phan hoi cham. He thong dang thu ket noi lai..."
       [] t = AUTH_ERROR -> "Xay ra loi xac thuc. He thong dang thu lai..."
       [] t = RATE_LIMIT_ERROR -> "Da vuot qua gioi han yeu cau. He thong dang thu lai..."
       [] t = VALIDATION_ERROR -> "Thong tin khong hop le. He thong dang thu lai..."
       [] OTHER -> "Dang thu ket noi lai voi may chu..."]

\* -------------------------------------------------------------------- text
\* White space as String.prototype.trim and JSON.parse see it.
WhiteSpace == {" ", "\n"}

RECURSIVE TrimStart(_)
TrimStart(s) ==
  IF s # << >> /\ Head(s) \in WhiteSpace THEN TrimStart(Tail(s)) ELSE s

RECURSIVE TrimEnd(_)
TrimEnd(s) ==
  IF s # << >> /\ s[Len(s)] \in WhiteSpace
    THEN TrimEnd(SubSeq(s, 1, Len(s) - 1))
    ELSE s

\* String.prototype.trim.
Trim(s) == TrimEnd(TrimStart(s))

\* n blanks.
Blanks(n) == [i \in 1..n |-> " "]

\* The prompts a caller may pass: nothing but blanks (none to MaxPad + 1 of
\* them), and a word between 0..MaxPad blanks on each side.
Prompts ==
  {Blanks(n) : n \in 0..(MaxPad + 1)}
    \cup {Blanks(n) \o <<"H", "i">> \o Blanks(n) : n \in 0..MaxPad}

\* The session identifiers a caller may pass ('' is the missing one).
SessionIds == {"", "sess-1"}

\* ---------------------------------------------------------------- payloads
\* A parsed JSON value: an object (a function from its keys to strings) or
\* null.  An optional field of an envelope is a sequence of length 0 or 1.
EmptyFields == [k \in {} |-> << >>]
JNull == [jtype |-> "null", fields |-> EmptyFields]
JObject(f) == [jtype |-> "object", fields |-> f]

\* JavaScript truthiness of an envelope's data field (!!response.data).
Truthy(data) == data # << >> /\ data[1].jtype # "null"

\* Object.keys(data).length === 0
NoKeys(data) == DOMAIN data[1].fields = {}

\* The response bodies the endpoint may send, lexeme by lexeme.
BodyEmpty == << >>
BodyBlank == <<" ", "\n">>
BodyText == <<"{", "\"text\"", ":", "\"Hi there\"", "}", "\n">>
BodyMessageImage ==
  <<" ", "{", "\"message\"", ":", "\"m\"", ",", "\"imageUrl\"", ":", "\"u\"", "}">>
BodyEmptyObject == <<"{", "}">>
BodyNull == <<"null">>
BodyPlain == <<"Hi", " ", "there">>
BodyBroken == <<"{", "\"text\"", ":">>

Bodies ==
  {BodyEmpty, BodyBlank, BodyText, BodyMessageImage, BodyEmptyObject, BodyNull,
   BodyPlain, BodyBroken}

\* JSON.parse on the modelled bodies: << >> when it throws a SyntaxError,
\* else the one-element sequence holding the value.  JSON.parse skips white
\* space around the value.
JSONParse(text) ==
  LET t == Trim(text)
  IN CASE t = <<"{", "\"text\"", ":", "\"Hi there\"", "}">> ->
            <<JObject([text |-> <<"Hi there">>])>>
       [] t = <<"{", "\"message\"", ":", "\"m\"", ",", "\"imageUrl\"", ":", "\"u\"", "}">> ->
            <<JObject([message |-> <<"m">>, imageUrl |-> <<"u">>])>>
       [] t = <<"{", "}">> -> <<JObject(EmptyFields)>>
       [] t = <<"null">> -> <<JNull>>
       [] OTHER -> << >>

\* The HTTP statuses the endpoint may answer with.
Statuses == {200, 204, 301, 400, 401, 403, 404, 429, 500, 503}

\* Response.ok
Ok(status) == status >= 200 /\ status <= 299


\* ------------------------------------------------------------------- state
VARIABLES
  entry,        \* which exported function was called: "none", "send", "execute"
  prompt,       \* the message argument
  sessionId,    \* the sessionId argument
  opts,         \* the RetryOptions after defaults
  opc,          \* sendWebhookMessage: "idle", "direct", "calling", "sleeping", "done", "threw"
  retries,      \* sendWebhookMessage's retries
  lastResponse, \* sendWebhookMessage's lastResponse (<< >> is null)
  ologs,        \* length of sendWebhookMessage's logs array
  waits,        \* the waitTime of every sleep started, in order
  result,       \* the envelope the entry point returned (<< >> before it returns)
  xpc,          \* sendChatMessage: "idle", "call", "fetching", "reading", "returned", "threw"
  timers,       \* the timeout timer of every sendChatMessage call: "armed", "cleared", "fired"
  response,     \* the status of the Response being read (<< >> when none)
  fetchCalls,   \* how many times fetch was called
  xret,         \* the envelope sendChatMessage resolved with, not yet consumed
  xthrown,      \* the value sendChatMessage threw, not yet caught (<< >> when none)
  lastCall,     \* what the latest finished sendChatMessage call saw and returned
  returned,     \* per sendChatMessage call so far: "success", its error type, "threw" (an
                \* Error) or "threw nothing" (undefined)
  aborted,      \* per sendChatMessage call so far: where its own timer fired, or "none"
  logCalls,     \* the entries the latest sendChatMessage call handed to the logger
  mpc,          \* sendMessage: "idle", "awaiting", "returned", "threw"
  mresult,      \* what sendMessage returned, or the message of the Error it threw
  fgiven,       \* the payload a caller of formatWebhookResponse holds, as first built
  fdata,        \* that payload object as it is now
  fdev,         \* the isDevMode argument of the caller's formatWebhookResponse calls
  fouts,        \* what the calls of formatWebhookResponse on the payload returned
  fagain,       \* what formatWebhookResponse returned for its own first output
  lcfg,         \* the Logger's config (<< >> before it is constructed)
  lfiles,       \* the log directory: name of each file |-> its size and birth time
  lcurrent,     \* the Logger's currentLogFile
  lclock,       \* the time, in seconds
  llast,        \* what the latest Logger.log call was given and did
  sstore,       \* localStorage's 'sessionId' item (<< >> when there is none)
  sids,         \* how many identifiers uuidv4 has generated
  scalls,       \* the calls of the session functions so far, with what they returned
  apc,          \* App: "unmounted", "idle", "awaiting" (handleSendMessage at its await)
  messages,     \* App's messages state
  isLoading,    \* App's isLoading state
  asession,     \* App's sessionId state
  atext         \* the text of the latest handleSendMessage call (<< >> before any)

msgVars == <<mpc, mresult>>
fmtVars == <<fgiven, fdata, fdev, fouts, fagain>>
logVars == <<lcfg, lfiles, lcurrent, lclock, llast>>
inputVars == <<entry, prompt, sessionId, opts>>
orchVars == <<retries, lastResponse, ologs, waits>>
sessVars == <<sstore, sids, scalls>>
appVars == <<apc, messages, isLoading, asession, atext>>
vars ==
  <<entry, prompt, sessionId, opts, opc, retries, lastResponse, ologs, waits,
    result, xpc, timers, response, fetchCalls, xret, xthrown, lastCall, returned,
    aborted, logCalls, mpc, mresult, fgiven, fdata, fdev, fouts, fagain,
    lcfg, lfiles, lcurrent, lclock, llast, sstore, sids, scalls, apc, messages,
    isLoading, asession, atext>>

\* A log entry handed to the logger.
LogEntry(level, category, message) ==
  [level |-> level, category |-> category, message |-> message]

\* ---------------------------------------------------------------- envelopes
\* ControllerResponse.devInfo: whether the request and the response are
\* echoed, and how many log lines it carries.  shared: its logs is the very
\* array sendWebhookMessage keeps pushing to, so its length is the array's.
DevInfo(request, resp, nlogs) ==
  <<[request |-> request, response |-> resp, logs |-> nlogs, shared |-> FALSE]>>

\* An ErrorResponse.  status and details are optional.
ErrorResponse(type, message, devMessage, status, details) ==
  [type |-> type, message |-> message, devMessage |-> devMessage,
   status |-> status, details |-> details]

\* A ControllerResponse with success: false.
Failure(error, devInfo) ==
  [success |-> FALSE, data |-> << >>, error |-> <<error>>, devInfo |-> devInfo]

\* A ControllerResponse with success: true.
Success(data, devInfo) ==
  [success |-> TRUE, data |-> data, error |-> << >>, devInfo |-> devInfo]

\* A value thrown inside sendChatMessage: a DOMException or TypeError (name
\* set, no type) or an ErrorResponse object (type set, no name).  "" is
\* undefined.
Thrown(name, type, message, devMessage, status) ==
  [name |-> name, type |-> type, message |-> message, devMessage |-> devMessage,
   status |-> status]

\* What fetch and Response.text reject with when the signal aborts.
AbortError == Thrown("AbortError", "", "The operation was aborted.", "", << >>)

\* What fetch and Response.text reject with on a transport failure.
TransportError == Thrown("TypeError", "", "Failed to fetch", "", << >>)

\* ------------------------------------------------------- processResponse
\* The branch of processResponse for a response that is not ok: the
\* ErrorResponse it throws and the log entry it writes first.
StatusError(status) ==
  LET type == IF status = 401 \/ status = 403 THEN AUTH_ERROR
              ELSE IF status = 429 THEN RATE_LIMIT_ERROR
              ELSE IF status >= 500 THEN SERVER_ERROR
              ELSE IF status = 400 THEN VALIDATION_ERROR
              ELSE UNKNOWN_ERROR
      devMessage == CASE type = AUTH_ERROR -> "Authentication error: HTTP"
                      [] type = RATE_LIMIT_ERROR -> "Rate limit exceeded: HTTP"
                      [] type = SERVER_ERROR -> "Server error: HTTP"
                      [] type = VALIDATION_ERROR -> "Invalid request data: HTTP"
                      [] OTHER -> "HTTP error! status:"
      level == IF type \in {RATE_LIMIT_ERROR, VALIDATION_ERROR} THEN "WARNING" ELSE "ERROR"
  IN [thrown |-> Thrown("", type, USER_FRIENDLY_MESSAGES[type], devMessage, <<status>>),
      logs |-> <<LogEntry(level, "ChatController.processResponse", devMessage)>>]

\* The text processResponse shows when the body is empty.
EmptyBodyText == <<"May chu khong tra ve noi dung. Vui long thu lai sau.">>

\* A deviation of ProcessText: a body that is not JSON is not recovered,
\* the parse failure is thrown.
ProcessTextStrict(text) ==
  IF JSONParse(text) # << >>
    THEN [threw |-> FALSE, data |-> JSONParse(text), thrown |-> << >>, logs |-> << >>]
    ELSE [threw |-> TRUE, data |-> << >>,
          thrown |-> <<Thrown("", UNKNOWN_ERROR,
                              "May chu khong phan hoi dung dinh dang. Vui long thu lai sau.",
                              "Failed to parse JSON response from API", << >>)>>,
          logs |-> << >>]

\* processResponse once Response.text resolved with `text`: the value it
\* returns (data), or the value it throws, and the log entries it writes.
ProcessText(text) ==
  LET raw == LogEntry("INFO", "ChatController.processResponse", "Raw API response received")
      parsed == JSONParse(text)
  IN IF text = << >> \/ Trim(text) = << >>
       THEN [threw |-> FALSE,
             data |-> <<JObject([text |-> EmptyBodyText, raw |-> <<"emptyResponse">>])>>,
             thrown |-> << >>,
             logs |-> <<raw, LogEntry("WARNING", "ChatController.processResponse",
                                      "Server returned empty response with status 200")>>]
     ELSE IF parsed # << >>
       THEN [threw |-> FALSE, data |-> parsed, thrown |-> << >>, logs |-> <<raw>>]
     ELSE LET failed == LogEntry("ERROR", "ChatController.processResponse",
                                 "Failed to parse JSON response from API")
          IN IF text # << >> /\ Trim(text) # << >>
               THEN [threw |-> FALSE,
                     data |-> <<JObject([text |-> text, raw |-> text])>>,
                     thrown |-> << >>,
                     logs |-> <<raw, failed>>]
               ELSE [threw |-> TRUE, data |-> << >>,
                     thrown |-> <<Thrown("", UNKNOWN_ERROR,
                                         "May chu khong phan hoi dung dinh dang. Vui long thu lai sau.",
                                         "Failed to parse JSON response from API", << >>)>>,
                     logs |-> <<raw, failed>>]

\* The catch of processResponse's try, for a value `e` thrown while the body
\* is read: an ErrorResponse is thrown on, anything else is logged and
\* replaced by an UNKNOWN_ERROR object.
ProcessCatch(e) ==
  IF e.type # ""
    THEN [thrown |-> e, logs |-> << >>]
    ELSE [thrown |-> Thrown("", UNKNOWN_ERROR,
                            "May chu khong phan hoi dung dinh dang. Vui long thu lai sau.",
                            "Failed to process API response", << >>),
          logs |-> <<LogEntry("ERROR", "ChatController.processResponse",
                              "Failed to process API response")>>]

\* ------------------------------------------------------- sendChatMessage
\* The envelope returned for an empty message.
EmptyMessageFailure ==
  Failure(ErrorResponse(VALIDATION_ERROR, "Vui long nhap noi dung tin nhan.",
                        "Empty message provided by user", << >>, << >>),
          DevInfo(FALSE, FALSE, 1))

\* The envelope returned for a missing session id.
NoSessionFailure ==
  Failure(ErrorResponse(VALIDATION_ERROR, USER_FRIENDLY_MESSAGES[VALIDATION_ERROR],
                        "Session ID is required but was not provided", << >>, << >>),
          DevInfo(FALSE, FALSE, 1))

\* A deviation of EmptyMessage: the message is not trimmed.
EmptyMessageNoTrim(p) == p = << >>

\* sendChatMessage's test for an empty message: !prompt.trim()
EmptyMessage(p) == Trim(p) = << >>

\* sendChatMessage's test for a missing session id: !sessionId
NoSession(s) == s = ""

\* Whether the inner catch takes `error` for the timeout abort.
IsAbort(error) == error.name = "AbortError"

\* A deviation of CaughtType: the classification of the caught value is
\* never looked at.
CaughtTypeNetwork(error) == NETWORK_ERROR

\* The kind the inner catch gives an error that is not the abort.
CaughtType(error) ==
  IF error.type = SERVER_ERROR THEN SERVER_ERROR ELSE NETWORK_ERROR

\* A deviation of FetchCatch: the caught value is dropped and an envelope
\* with success: true and no data returned.
FetchCatchAsSuccess(error, nlogs) ==
  [ret |-> Success(<< >>, DevInfo(TRUE, FALSE, nlogs + 1)), logs |-> << >>]

\* The inner catch of sendChatMessage, for a value thrown by fetch or by
\* processResponse: the envelope it returns and the log entry it writes.
\* nlogs is the length of the logs array when the value is caught.
FetchCatch(error, nlogs) ==
  IF IsAbort(error)
    THEN [ret |-> Failure(ErrorResponse(TIMEOUT_ERROR, USER_FRIENDLY_MESSAGES[TIMEOUT_ERROR],
                                        "Request timed out", << >>, << >>),
                          DevInfo(TRUE, FALSE, nlogs + 1)),
          logs |-> <<LogEntry("ERROR", "ChatController.sendChatMessage", "Request timed out")>>]
    ELSE LET type == CaughtType(error)
             devMessage == IF type = SERVER_ERROR
                             THEN (IF error.devMessage # "" THEN error.devMessage ELSE "Server error:")
                             ELSE "Network error:"
         IN [ret |-> Failure(ErrorResponse(type, USER_FRIENDLY_MESSAGES[type], devMessage,
                                           << >>, <<error>>),
                             DevInfo(TRUE, FALSE, nlogs + 1)),
             logs |-> <<LogEntry("ERROR", "ChatController.sendChatMessage", devMessage)>>]


\* sendChatMessage resolves with envelope r.  lastCall keeps what the call
\* saw: the status received (0 when no response came), where its own timer
\* fired ("none", "fetching", "reading") and whether it called fetch.  A
\* direct caller has its result; sendWebhookMessage resumes in AfterAttempt.
ResolveWith(r, status, abortedIn, fetched, body) ==
  /\ lastCall' = <<[ret |-> r, status |-> status, abortedIn |-> abortedIn,
                   fetched |-> fetched,
                   json |-> IF body = << >> THEN << >> ELSE JSONParse(body[1])]>>
  /\ returned' = Append(returned, IF r.success THEN "success" ELSE r.error[1].type)
  /\ aborted' = Append(aborted, abortedIn)
  /\ xthrown' = xthrown
  /\ IF entry = "execute"
       THEN /\ result' = <<r>>
            /\ opc' = "done"
            /\ xpc' = "idle"
            /\ xret' = << >>
       ELSE /\ xret' = <<r>>
            /\ xpc' = "returned"
            /\ UNCHANGED <<result, opc>>

\* The same when no body text was read.
Resolve(r, status, abortedIn, fetched) ==
  ResolveWith(r, status, abortedIn, fetched, << >>)

\* The timer of the sendChatMessage call in progress.
Current == Len(timers)

\* sendChatMessage from its call to its first await: arm the timer, log,
\* validate, and call fetch.
SendChatMessage ==
  /\ xpc = "call"
  /\ timers' = Append(timers, "armed")
  /\ response' = << >>
  /\ LET start == LogEntry("INFO", "ChatController.sendChatMessage", "Starting chat request")
     IN IF EmptyMessage(prompt)
          THEN /\ logCalls' = <<start, LogEntry("WARNING", "ChatController.sendChatMessage",
                                                "Empty message provided by user")>>
               /\ fetchCalls' = fetchCalls
               /\ Resolve(EmptyMessageFailure, 0, "none", FALSE)
        ELSE IF NoSession(sessionId)
          THEN /\ logCalls' = <<start, LogEntry("WARNING", "ChatController.sendChatMessage",
                                                "Session ID is required but was not provided")>>
               /\ fetchCalls' = fetchCalls
               /\ Resolve(NoSessionFailure, 0, "none", FALSE)
        ELSE /\ logCalls' = <<start, LogEntry("INFO", "ChatController.sendChatMessage",
                                              "Sending fetch request")>>
             /\ fetchCalls' = fetchCalls + 1
             /\ xpc' = "fetching"
             /\ UNCHANGED <<xret, xthrown, lastCall, returned, aborted, result, opc>>
  /\ UNCHANGED <<inputVars, orchVars>>
  /\ UNCHANGED <<msgVars, fmtVars, logVars, sessVars, appVars>>

\* The log entry written when the response's status line is received.
ReceivedEntry ==
  LogEntry("INFO", "ChatController.sendChatMessage", "Received response with status")

\* fetch resolves with a response that is not ok: processResponse throws
\* and the inner catch returns.
FetchResolvesNotOk(status) ==
  /\ xpc = "fetching"
  /\ ~Ok(status)
  /\ LET se == StatusError(status)
         c == FetchCatch(se.thrown, 3)
     IN /\ logCalls' = logCalls \o <<ReceivedEntry>> \o se.logs \o c.logs
        /\ Resolve(c.ret, status, "none", TRUE)
  /\ UNCHANGED <<inputVars, orchVars, timers, response, fetchCalls>>
  /\ UNCHANGED <<msgVars, fmtVars, logVars, sessVars, appVars>>

\* fetch resolves with an ok response: processResponse awaits its body.
FetchResolvesOk(status) ==
  /\ xpc = "fetching"
  /\ Ok(status)
  /\ response' = <<status>>
  /\ xpc' = "reading"
  /\ logCalls' = Append(logCalls, ReceivedEntry)
  /\ UNCHANGED <<inputVars, orchVars, opc, result, timers, fetchCalls, xret, xthrown, lastCall,
                 returned, aborted>>
  /\ UNCHANGED <<msgVars, fmtVars, logVars, sessVars, appVars>>

\* fetch rejects: DNS failure, connection refused, and the like.
FetchRejects ==
  /\ xpc = "fetching"
  /\ LET c == FetchCatch(TransportError, 2)
     IN /\ logCalls' = logCalls \o c.logs
        /\ Resolve(c.ret, 0, "none", TRUE)
  /\ UNCHANGED <<inputVars, orchVars, timers, response, fetchCalls>>
  /\ UNCHANGED <<msgVars, fmtVars, logVars, sessVars, appVars>>

\* The call's timer fires while fetch is pending: controller.abort() makes
\* fetch reject with the AbortError.
TimeoutWhileFetching ==
  /\ xpc = "fetching"
  /\ timers[Current] = "armed"
  /\ timers' = [timers EXCEPT ![Current] = "fired"]
  /\ LET c == FetchCatch(AbortError, 2)
     IN /\ logCalls' = logCalls \o c.logs
        /\ Resolve(c.ret, 0, "fetching", TRUE)
  /\ UNCHANGED <<inputVars, orchVars, response, fetchCalls>>
  /\ UNCHANGED <<msgVars, fmtVars, logVars, sessVars, appVars>>

\* Response.text resolves: processResponse returns the data, the timer is
\* cleared and the success envelope returned (or, had processResponse
\* thrown, the inner catch returns).
BodyArrives(text) ==
  /\ xpc = "reading"
  /\ LET p == ProcessText(text)
     IN IF p.threw
          THEN LET pc == ProcessCatch(p.thrown[1])
                   c == FetchCatch(pc.thrown, 3)
               IN /\ logCalls' = logCalls \o p.logs \o pc.logs \o c.logs
                  /\ timers' = timers
                  /\ ResolveWith(c.ret, response[1], "none", TRUE, <<text>>)
          ELSE /\ logCalls' = logCalls \o p.logs
               /\ timers' = [timers EXCEPT ![Current] = "cleared"]
               /\ ResolveWith(Success(p.data, DevInfo(TRUE, TRUE, 3)), response[1], "none",
                              TRUE, <<text>>)
  /\ UNCHANGED <<inputVars, orchVars, response, fetchCalls>>
  /\ UNCHANGED <<msgVars, fmtVars, logVars, sessVars, appVars>>

\* Response.text rejects: the connection broke while the body was read.
BodyFails ==
  /\ xpc = "reading"
  /\ LET pc == ProcessCatch(TransportError)
         c == FetchCatch(pc.thrown, 3)
     IN /\ logCalls' = logCalls \o pc.logs \o c.logs
        /\ Resolve(c.ret, response[1], "none", TRUE)
  /\ UNCHANGED <<inputVars, orchVars, timers, response, fetchCalls>>
  /\ UNCHANGED <<msgVars, fmtVars, logVars, sessVars, appVars>>

\* The call's timer fires while the body is read: controller.abort() makes
\* Response.text reject with the AbortError.
TimeoutWhileReading ==
  /\ xpc = "reading"
  /\ timers[Current] = "armed"
  /\ timers' = [timers EXCEPT ![Current] = "fired"]
  /\ LET pc == ProcessCatch(AbortError)
         c == FetchCatch(pc.thrown, 3)
     IN /\ logCalls' = logCalls \o pc.logs \o c.logs
        /\ Resolve(c.ret, response[1], "reading", TRUE)
  /\ UNCHANGED <<inputVars, orchVars, response, fetchCalls>>
  /\ UNCHANGED <<msgVars, fmtVars, logVars, sessVars, appVars>>

\* Whether the event loop is free to run a timer callback.
LoopIdle == xpc \in {"fetching", "reading"} \/ opc \in {"sleeping", "done"}

\* A deviation of StaleTimerFires: the calls share one AbortController, so
\* the timer of a call that already returned aborts the fetch in progress.
StaleTimerAbortsCurrent(i) ==
  /\ xpc = "fetching"
  /\ i \in 1..(Current - 1)
  /\ timers[i] = "armed"
  /\ timers' = [timers EXCEPT ![i] = "fired"]
  /\ LET c == FetchCatch(AbortError, 2)
     IN /\ logCalls' = logCalls \o c.logs
        /\ Resolve(c.ret, 0, "fetching", TRUE)
  /\ UNCHANGED <<inputVars, orchVars, response, fetchCalls>>
  /\ UNCHANGED <<msgVars, fmtVars, logVars, sessVars, appVars>>

\* The timer of a call that already returned fires: it aborts that call's
\* own controller, which nothing listens to any more.
StaleTimerFires(i) ==
  /\ LoopIdle
  /\ i \in 1..Len(timers)
  /\ timers[i] = "armed"
  /\ i < Current \/ xpc \notin {"fetching", "reading"}
  /\ timers' = [timers EXCEPT ![i] = "fired"]
  /\ UNCHANGED <<inputVars, orchVars, opc, result, xpc, response, fetchCalls, xret, xthrown,
                 lastCall, returned, aborted, logCalls>>
  /\ UNCHANGED <<msgVars, fmtVars, logVars, sessVars, appVars>>

\* A caller invokes sendChatMessage directly.
CallSendChatMessage(p, s) ==
  /\ entry = "none"
  /\ entry' = "execute"
  /\ prompt' = p
  /\ sessionId' = s
  /\ opc' = "direct"
  /\ xpc' = "call"
  /\ UNCHANGED <<opts, orchVars, result, timers, response, fetchCalls, xret, xthrown, lastCall,
                 returned, aborted, logCalls>>
  /\ UNCHANGED <<msgVars, fmtVars, logVars, sessVars, appVars>>


\* ---------------------------------------------------- sendWebhookMessage
\* The default retryableErrors.
DefaultRetryable == {NETWORK_ERROR, SERVER_ERROR, TIMEOUT_ERROR}

\* sendWebhookMessage's options when the caller passes none.
DefaultOptions ==
  [maxRetries |-> MAX_RETRIES, retryDelay |-> RETRY_DELAY,
   retryableErrors |-> DefaultRetryable, isDevMode |-> FALSE]

\* The options a caller may pass (a negative maxRetries skips the loop).
Options ==
  [maxRetries : (-1)..MaxRetriesOpt,
   retryDelay : {RETRY_DELAY, 250},
   retryableErrors : {DefaultRetryable, {TIMEOUT_ERROR, AUTH_ERROR, UNKNOWN_ERROR}, {}},
   isDevMode : BOOLEAN]

\* The options tried around the real sendChatMessage: the length of the
\* waits is varied around the stand-in only.
DefaultDelayOptions == {o \in Options : o.retryDelay = RETRY_DELAY}

\* A deviation of EmptyPrompt: the prompt is not trimmed.
EmptyPromptNoTrim(p) == p = << >>

\* sendWebhookMessage's test for an empty prompt: !prompt || !prompt.trim()
EmptyPrompt(p) == p = << >> \/ Trim(p) = << >>

\* sendWebhookMessage's test for a missing sessionId: !sessionId
MissingSession(s) == s = ""

\* devInfo of an envelope sendWebhookMessage builds and returns at once.
OwnDevInfo(o, nlogs) == IF o.isDevMode THEN DevInfo(TRUE, FALSE, nlogs) ELSE << >>

\* devInfo whose logs is sendWebhookMessage's own logs array.
SharedDevInfo(dev) == <<[dev EXCEPT !.logs = 0, !.shared = TRUE]>>

\* The length of a devInfo's logs when the orchestrator's array holds nlogs.
LogsOf(dev, nlogs) == IF dev.shared THEN nlogs ELSE dev.logs

\* The envelope for an empty prompt.
EmptyPromptFailure(o, nlogs) ==
  Failure(ErrorResponse(VALIDATION_ERROR, "Vui long nhap noi dung tin nhan.",
                        "Empty prompt provided", << >>, << >>),
          OwnDevInfo(o, nlogs))

\* The envelope for a missing sessionId.
MissingSessionFailure(o, nlogs) ==
  Failure(ErrorResponse(VALIDATION_ERROR, "Phien lam viec khong hop le. Vui long lam moi trang.",
                        "Missing sessionId", << >>, << >>),
          OwnDevInfo(o, nlogs))

\* The envelope returned when the loop left lastResponse null.
FallbackError(o, nlogs) ==
  Failure(ErrorResponse(UNKNOWN_ERROR, "Ket noi den may chu khong thanh cong. Vui long thu lai sau.",
                        "Failed to process webhook request after multiple attempts - no response",
                        << >>, << >>),
          OwnDevInfo(o, nlogs))

\* The envelope the catch around the sendChatMessage call builds.
CaughtFailure(o) ==
  Failure(ErrorResponse(UNKNOWN_ERROR, USER_RETRY_MESSAGES[UNKNOWN_ERROR],
                        "Unexpected error:", << >>, << >>),
          IF o.isDevMode THEN SharedDevInfo(DevInfo(TRUE, FALSE, 0)[1]) ELSE << >>)

\* The check after the call: success with no data becomes an UNKNOWN_ERROR
\* failure (the data stays as it was); an empty object is only logged.
CheckData(r) ==
  IF Truthy(r.data) /\ NoKeys(r.data) THEN r
  ELSE IF ~Truthy(r.data) /\ r.success
    THEN [r EXCEPT !.success = FALSE,
                   !.error = <<ErrorResponse(UNKNOWN_ERROR,
                                             "May chu khong tra ve noi dung. Vui long thu lai sau.",
                                             "Server returned success but no data", << >>, << >>)>>]
  ELSE r

\* A deviation of ReturnsNow: a failure is retried whatever its kind.
ReturnsNowAnyKind(r, o) == r.success \/ r.error = << >>

\* Whether the envelope is returned at once: success, no error, or an error
\* that is not retryable.
ReturnsNow(r, o) ==
  \/ r.success
  \/ r.error = << >>
  \/ r.error[1].type \notin o.retryableErrors

\* lastResponse with the orchestrator's log lines appended to its devInfo
\* (in a new array).
MergeLogs(r, o, nlogs) ==
  IF o.isDevMode /\ r.devInfo # << >>
    THEN [r EXCEPT !.devInfo = <<[r.devInfo[1] EXCEPT
                                    !.logs = LogsOf(r.devInfo[1], nlogs) + nlogs,
                                    !.shared = FALSE]>>]
    ELSE r

\* lastResponse with its message overwritten by the "retrying" notice, as is
\* done when a retry follows; in dev mode its devInfo.logs becomes the
\* orchestrator's logs array.
RetryNotice(r, o) ==
  LET noticed == [r EXCEPT !.error = <<[r.error[1] EXCEPT
                                          !.message = USER_RETRY_MESSAGES[r.error[1].type]]>>]
  IN IF o.isDevMode /\ r.devInfo # << >>
       THEN [noticed EXCEPT !.devInfo = SharedDevInfo(r.devInfo[1])]
       ELSE noticed

\* A deviation of WaitTime: the same wait before every retry.
WaitTimeConstant(delay, n) == delay

\* The wait before the attempt that follows attempt index n.
WaitTime(delay, n) == delay * (n + 1)

\* The loop condition, with n retries.
\* The loop test left out.
LoopAlways(n, o) == TRUE

LoopCondition(n, o) == n <= o.maxRetries

\* A deviation of BoundReached: it stops one attempt early.
BoundReachedEarly(n, o) == n + 1 >= o.maxRetries

\* The test that ends the loop after an attempt, with n retries.
BoundReached(n, o) == n >= o.maxRetries

\* What follows the loop: the last response, or the fallback.
FinalReturn(lr, o, nlogs) ==
  IF lr # << >> THEN MergeLogs(lr[1], o, nlogs) ELSE FallbackError(o, nlogs)

\* The head of the while loop with `n` retries: call sendChatMessage, or
\* leave the loop and return.
LoopHead(n, lr, o, nlogs) ==
  IF LoopCondition(n, o)
    THEN /\ opc' = "calling"
         /\ xpc' = "call"
         /\ ologs' = nlogs + 1
         /\ lastResponse' = lr
         /\ result' = result
    ELSE /\ opc' = "done"
         /\ xpc' = "idle"
         /\ ologs' = nlogs
         /\ lastResponse' = lr
         /\ result' = <<FinalReturn(lr, o, nlogs)>>

\* The bottom of a loop iteration: stop at the bound and
\* return, or start the wait.
LoopBottom(lr, nlogs) ==
  IF BoundReached(retries, opts)
    THEN /\ opc' = "done"
         /\ ologs' = nlogs + 1
         /\ lastResponse' = lr
         /\ result' = <<FinalReturn(lr, opts, nlogs + 1)>>
         /\ waits' = waits
    ELSE /\ opc' = "sleeping"
         /\ ologs' = nlogs + 1
         /\ lastResponse' = lr
         /\ result' = result
         /\ waits' = Append(waits, WaitTime(opts.retryDelay, retries))

\* A caller invokes sendWebhookMessage: the options are read, both inputs
\* validated, and the loop entered.
CallSendWebhookMessage(p, s, o) ==
  /\ entry = "none"
  /\ entry' = "send"
  /\ prompt' = p
  /\ sessionId' = s
  /\ opts' = o
  /\ retries' = 0
  /\ waits' = << >>
  /\ IF EmptyPrompt(p)
       THEN /\ result' = <<EmptyPromptFailure(o, 2)>>
            /\ ologs' = 2
            /\ opc' = "done"
            /\ UNCHANGED <<lastResponse, xpc>>
     ELSE IF MissingSession(s)
       THEN /\ result' = <<MissingSessionFailure(o, 2)>>
            /\ ologs' = 2
            /\ opc' = "done"
            /\ UNCHANGED <<lastResponse, xpc>>
     ELSE LoopHead(0, << >>, o, 1)
  /\ UNCHANGED <<timers, response, fetchCalls, xret, xthrown, lastCall, returned, aborted, logCalls>>
  /\ UNCHANGED <<fmtVars, logVars, sessVars>>

\* A caller other than sendMessage calls sendWebhookMessage.
SendWebhookMessage(p, s, o) ==
  /\ CallSendWebhookMessage(p, s, o)
  /\ UNCHANGED <<msgVars, appVars>>

\* A deviation of AfterAttempt: while retries are left, the next attempt
\* follows the last at once, whatever it returned and without a wait.
AfterAttemptNoWait ==
  /\ opc = "calling"
  /\ xpc = "returned"
  /\ retries < opts.maxRetries
  /\ xpc' = "call"
  /\ xret' = << >>
  /\ retries' = retries + 1
  /\ lastResponse' = xret
  /\ ologs' = ologs + 1
  /\ UNCHANGED <<inputVars, waits, opc, result, xthrown, timers, response, fetchCalls,
                 lastCall, returned, aborted, logCalls>>
  /\ UNCHANGED <<msgVars, fmtVars, logVars, sessVars, appVars>>

\* sendChatMessage resolved: the rest of the loop iteration, up to the
\* return or the sleep.
AfterAttempt ==
  /\ opc = "calling"
  /\ xpc = "returned"
  /\ xpc' = "idle"
  /\ xret' = << >>
  /\ xthrown' = xthrown
  /\ LET x == xret[1]
         r == CheckData(x)
         emptyObject == Truthy(x.data) /\ NoKeys(x.data)
         noData == ~Truthy(x.data) /\ x.success
         n == ologs + (IF emptyObject \/ noData THEN 1 ELSE 0)
     IN IF ReturnsNow(r, opts)
          THEN /\ opc' = "done"
               /\ ologs' = n + 1
               /\ lastResponse' = <<MergeLogs(r, opts, n + 1)>>
               /\ result' = <<MergeLogs(r, opts, n + 1)>>
               /\ waits' = waits
        ELSE IF retries < opts.maxRetries /\ r.error # << >>
          THEN LoopBottom(<<RetryNotice(r, opts)>>, n + 1)
        ELSE LoopBottom(<<r>>, n)
  /\ UNCHANGED <<inputVars, retries, timers, response, fetchCalls, lastCall, returned,
                 aborted, logCalls>>
  /\ UNCHANGED <<msgVars, fmtVars, logVars, sessVars, appVars>>

\* A deviation of SleepDone: the retry is not counted.
SleepDoneNoCount ==
  /\ opc = "sleeping"
  /\ retries' = retries
  /\ LoopHead(retries, lastResponse, opts, ologs)
  /\ UNCHANGED <<inputVars, waits, timers, response, fetchCalls, xret, xthrown, lastCall, returned,
                 aborted, logCalls>>
  /\ UNCHANGED <<msgVars, fmtVars, logVars, sessVars, appVars>>

\* The sleep is over: count the retry and go round the loop.
SleepDone ==
  /\ opc = "sleeping"
  /\ retries' = retries + 1
  /\ LoopHead(retries + 1, lastResponse, opts, ologs)
  /\ UNCHANGED <<inputVars, waits, timers, response, fetchCalls, xret, xthrown, lastCall, returned,
                 aborted, logCalls>>
  /\ UNCHANGED <<msgVars, fmtVars, logVars, sessVars, appVars>>

\* A deviation of ReadsMessage: no caught value has a message to read.
ReadsNoMessage(e) == FALSE

\* Whether the catch can read the message of the value it caught: reading
\* a property of undefined or null throws a TypeError.
ReadsMessage(e) == e \notin {"undefined", "null"}

\* sendChatMessage threw: the catch reads the message of the value caught,
\* builds a failure, and the iteration goes on to its bottom.  A TypeError
\* thrown inside the catch leaves sendWebhookMessage: its promise rejects.
AfterThrow ==
  /\ opc = "calling"
  /\ xpc = "threw"
  /\ xpc' = "idle"
  /\ xret' = << >>
  /\ xthrown' = << >>
  /\ IF ReadsMessage(xthrown[1])
       THEN LoopBottom(<<CaughtFailure(opts)>>, ologs + 1)
       ELSE /\ opc' = "threw"
            /\ UNCHANGED <<ologs, lastResponse, result, waits>>
  /\ UNCHANGED <<inputVars, retries, timers, response, fetchCalls, lastCall, returned,
                 aborted, logCalls>>
  /\ UNCHANGED <<msgVars, fmtVars, logVars, sessVars, appVars>>

\* ------------------------------------------------- formatWebhookResponse
\* data.k for a string field of a payload: << >> (undefined) when the key is
\* absent, else the one-element sequence holding the string.
Field(data, k) == IF k \in DOMAIN data.fields THEN <<data.fields[k]>> ELSE << >>

\* JavaScript truthiness of such a value: undefined and "" are falsy.
TruthyValue(v) == v # << >> /\ v[1] # << >>

\* a || b : the first operand when it is truthy, else the second.
Or(a, b) == IF TruthyValue(a) THEN a ELSE b

\* The text formatWebhookResponse falls back to.
NoResponseText == <<"Khong co phan hoi tu may chu. Vui long thu lai sau.">>

\* formatWebhookResponse with the operands of text in the other order.
FormatMessageFirst(data, isDevMode) ==
  [text |-> Or(Or(Field(data, "message"), Field(data, "text")), <<NoResponseText>>)[1],
   image |-> Or(Or(Field(data, "image"), Field(data, "imageUrl")), Field(data, "url")),
   raw |-> IF isDevMode
             THEN <<IF TruthyValue(Field(data, "raw")) THEN data.fields["raw"] ELSE data>>
             ELSE << >>]

\* formatWebhookResponse(data, isDevMode): the object it returns.  image is
\* << >> when it is undefined; raw is set in developer mode only.
FormatWebhookResponse(data, isDevMode) ==
  [text |-> Or(Or(Field(data, "text"), Field(data, "message")), <<NoResponseText>>)[1],
   image |-> Or(Or(Field(data, "image"), Field(data, "imageUrl")), Field(data, "url")),
   raw |-> IF isDevMode
             THEN <<IF TruthyValue(Field(data, "raw")) THEN data.fields["raw"] ELSE data>>
             ELSE << >>]

\* formatWebhookResponse that writes the text it chose back into the payload.
PayloadNormalised(data, isDevMode) ==
  JObject([k \in DOMAIN data.fields \cup {"text"} |->
             IF k = "text" THEN FormatWebhookResponse(data, isDevMode).text
             ELSE data.fields[k]])

\* The payload object after formatWebhookResponse ran on it: the function
\* reads data and assigns to formattedResponse only.
PayloadAfterFormat(data, isDevMode) == data

\* An object formatWebhookResponse returned, read as a payload again: a key
\* holding undefined reads as an absent key.
AsPayload(out) ==
  LET keys == {"text"} \cup (IF out.image # << >> THEN {"image"} ELSE {})
                       \cup (IF out.raw # << >> THEN {"raw"} ELSE {})
  IN JObject([k \in keys |-> IF k = "text" THEN out.text
                             ELSE IF k = "image" THEN out.image[1]
                             ELSE out.raw[1]])

\* The payloads a caller may hand to formatWebhookResponse: each of the five
\* keys it reads is absent, the empty string or a string of its own.
FormatKeys == {"text", "message", "image", "imageUrl", "url"}
FormatPayloads ==
  UNION {{JObject(f) : f \in [ks -> {<< >>, <<"a">>, <<"b">>}]} : ks \in SUBSET FormatKeys}

\* A caller builds a payload.
GivePayload(data, isDevMode) ==
  /\ fgiven = << >>
  /\ fgiven' = <<data>>
  /\ fdata' = <<data>>
  /\ fdev' = isDevMode
  /\ UNCHANGED <<fouts, fagain>>
  /\ UNCHANGED <<inputVars, orchVars, opc, result, xpc, timers, response,
                 fetchCalls, xret, xthrown, lastCall, returned, aborted, logCalls>>
  /\ UNCHANGED <<msgVars, logVars, sessVars, appVars>>

\* The caller formats the payload it holds (twice at most here).
FormatCall ==
  /\ fdata # << >>
  /\ Len(fouts) < 2
  /\ fouts' = Append(fouts, FormatWebhookResponse(fdata[1], fdev))
  /\ fdata' = <<PayloadAfterFormat(fdata[1], fdev)>>
  /\ UNCHANGED <<fgiven, fdev, fagain>>
  /\ UNCHANGED <<inputVars, orchVars, opc, result, xpc, timers, response,
                 fetchCalls, xret, xthrown, lastCall, returned, aborted, logCalls>>
  /\ UNCHANGED <<msgVars, logVars, sessVars, appVars>>

\* The caller formats what the first call returned.
FormatOutput ==
  /\ fouts # << >>
  /\ fagain = << >>
  /\ fagain' = <<FormatWebhookResponse(AsPayload(fouts[1]), fdev)>>
  /\ UNCHANGED <<fgiven, fdata, fdev, fouts>>
  /\ UNCHANGED <<inputVars, orchVars, opc, result, xpc, timers, response,
                 fetchCalls, xret, xthrown, lastCall, returned, aborted, logCalls>>
  /\ UNCHANGED <<msgVars, logVars, sessVars, appVars>>

\* -------------------------------------------------------------- sendMessage
\* The options sendMessage passes, { isDevMode: true }, after defaulting.
MessageOptions == [DefaultOptions EXCEPT !.isDevMode = TRUE]

\* new Error('Failed to get response from server')
NoResponseError == "Failed to get response from server"

\* sendMessage(prompt, sessionId) up to its await of sendWebhookMessage.
CallSendMessage(p, s) ==
  /\ CallSendWebhookMessage(p, s, MessageOptions)
  /\ mpc' = "awaiting"
  /\ mresult' = << >>

\* A caller other than App calls sendMessage.
SendMessage(p, s) ==
  /\ CallSendMessage(p, s)
  /\ UNCHANGED appVars

\* sendMessage throwing the fixed message whatever the envelope's error says.
SettleFixedMessage(r) ==
  IF ~r.success \/ ~Truthy(r.data)
    THEN /\ mpc' = "threw"
         /\ mresult' = <<NoResponseError>>
    ELSE /\ mpc' = "returned"
         /\ mresult' = <<FormatWebhookResponse(r.data[1], TRUE)>>

\* sendMessage formatting the payload but answering without its text.
SettleWithoutText(r) ==
  IF ~r.success \/ ~Truthy(r.data)
    THEN /\ mpc' = "threw"
         /\ mresult' = <<IF r.error # << >> THEN r.error[1].message ELSE NoResponseError>>
    ELSE /\ mpc' = "returned"
         /\ mresult' = <<[FormatWebhookResponse(r.data[1], TRUE) EXCEPT
                            !.text = NoResponseText]>>

\* What sendMessage does with the envelope r it awaited: it throws an Error
\* carrying the failure's message, or returns the formatted payload.
Settle(r) ==
  IF ~r.success \/ ~Truthy(r.data)
    THEN /\ mpc' = "threw"
         /\ mresult' = <<IF r.error # << >> THEN r.error[1].message ELSE NoResponseError>>
    ELSE /\ mpc' = "returned"
         /\ mresult' = <<FormatWebhookResponse(r.data[1], TRUE)>>

\* sendMessage after sendWebhookMessage settled.  What sendWebhookMessage
\* throws is an Error, which the catch throws on.
SendMessageSettles ==
  /\ mpc = "awaiting"
  /\ opc \in {"done", "threw"}
  /\ IF opc = "done"
       THEN Settle(result[1])
       ELSE /\ mpc' = "threw"
            /\ mresult' = <<"TypeError">>
  /\ UNCHANGED <<inputVars, orchVars, opc, result, xpc, timers, response,
                 fetchCalls, xret, xthrown, lastCall, returned, aborted, logCalls>>
  /\ UNCHANGED <<fmtVars, logVars, sessVars, appVars>>

\* ------------------------------------------------------------------- Logger
\* LogLevel
Levels == {"INFO", "WARNING", "ERROR", "CRITICAL"}

\* getLevelValue
GetLevelValue(level) ==
  CASE level = "INFO" -> 0
    [] level = "WARNING" -> 1
    [] level = "ERROR" -> 2
    [] level = "CRITICAL" -> 3
    [] OTHER -> 0

\* The console method log() mirrors an entry of the given level with.
Channel(level) ==
  CASE level \in {"ERROR", "CRITICAL"} -> "error"
    [] level = "WARNING" -> "warn"
    [] OTHER -> "log"

\* DEFAULT_CONFIG, with the size limit counted in entries (every entry
\* written adds one to its file) and the number of files kept scaled alike.
DefaultConfig ==
  [enabled |-> TRUE, minLevel |-> "WARNING", consoleOutput |-> TRUE,
   maxFiles |-> 2, maxFileSizeBytes |-> 2]

\* The configurations a Logger is built with: the default one with any one
\* setting changed by customConfig.
LoggerConfigs ==
  {[DefaultConfig EXCEPT !.minLevel = l] : l \in Levels}
  \cup {[DefaultConfig EXCEPT !.enabled = FALSE],
        [DefaultConfig EXCEPT !.consoleOutput = FALSE],
        [DefaultConfig EXCEPT !.maxFiles = 1]}

\* A day has DayLength seconds on the Logger's clock.
DayLength == 1

\* getLogFilePath at time now: the file named after the prefix and the date.
LogFilePath(now) == <<"date", now \div DayLength>>

\* The archive rotateLogsIfNeeded names at time now: the prefix and the
\* timestamp to the second.
ArchivePath(now) == <<"time", now>>

\* file.startsWith(filePrefix)
MatchesPrefix(name) == name[1] \in {"date", "time"}

\* Files an earlier run may have left in the log directory: an oversized
\* file of day 0, two archives born in the same instant, the file of the day
\* before, and a file that does not carry the prefix.
OldFiles ==
  [n \in {<<"date", 0>>, <<"time", -2>>, <<"time", -3>>, <<"date", -1>>, <<"other", 0>>} |->
     CASE n = <<"date", 0>> -> [size |-> 3, birth |-> -1]
       [] n = <<"time", -2>> -> [size |-> 3, birth |-> -3]
       [] n = <<"time", -3>> -> [size |-> 3, birth |-> -3]
       [] n = <<"date", -1>> -> [size |-> 1, birth |-> -2]
       [] OTHER -> [size |-> 1, birth |-> -4]]

Restrict(f, S) == [n \in S |-> f[n]]

\* The log directory as the constructor may find it.
InitialDirectories ==
  {Restrict(OldFiles, S) :
     S \in {{}, {<<"time", -2>>, <<"time", -3>>, <<"other", 0>>}, DOMAIN OldFiles}}

\* The file operations of a log call that may fail; a call meets one
\* failing kind here, or a failing append after a failing rename.
FailOps == {"stat", "rename", "readdir", "birthtime", "unlink", "append"}
Failures == {F \in SUBSET FailOps : Cardinality(F) <= 1} \cup {{"rename", "append"}}

\* What a log call has done so far: the directory, currentLogFile, the
\* console lines written, the kinds of file operation tried and failed,
\* and whether an exception is on its way out.
Began(files, current) ==
  [files |-> files, current |-> current, console |-> << >>, ops |-> {},
   failed |-> {}, rotated |-> FALSE, deleted |-> {}, freed |-> 0, left |-> 0,
   threw |-> FALSE]

Did(w, op) == [w EXCEPT !.ops = @ \cup {op}]
Fails(w, op) == [w EXCEPT !.ops = @ \cup {op}, !.failed = @ \cup {op}]

\* console.error('<what>', error) in a catch block
Report(w, what) == [w EXCEPT !.console = Append(@, <<"error", what>>)]

\* fs.renameSync: the target name is taken over if it exists; the file
\* keeps its size and birth time.
Rename(files, from, to) ==
  [n \in (DOMAIN files \ {from}) \cup {to} |-> IF n = to THEN files[from] ELSE files[n]]

\* fs.appendFileSync of one entry: the file is created if it is missing.
AppendFile(files, name, now) ==
  [n \in DOMAIN files \cup {name} |->
     IF n # name THEN files[n]
     ELSE IF name \in DOMAIN files THEN [files[name] EXCEPT !.size = @ + 1]
     ELSE [size |-> 1, birth |-> now]]

\* shouldRotateFile with >= for >.
RotateAtLimit(w, cfg, F) ==
  IF "stat" \in F \/ w.current \notin DOMAIN w.files
    THEN [w |-> Fails(w, "stat"), rotate |-> FALSE]
    ELSE [w |-> Did(w, "stat"),
          rotate |-> w.files[w.current].size >= cfg.maxFileSizeBytes]

\* shouldRotateFile: statSync throws for a missing file as for any other
\* failure, and the catch answers false without a word.
ShouldRotateFile(w, cfg, F) ==
  IF "stat" \in F \/ w.current \notin DOMAIN w.files
    THEN [w |-> Fails(w, "stat"), rotate |-> FALSE]
    ELSE [w |-> Did(w, "stat"),
          rotate |-> w.files[w.current].size > cfg.maxFileSizeBytes]

\* The sets of k files that come last when names is sorted by birth time.
NewestSets(files, names, k) ==
  {D \in SUBSET names :
     /\ Cardinality(D) = k
     /\ \A d \in D, f \in names \ D : files[d].birth >= files[f].birth}

\* sortedFiles.slice(0, k): the sets of k files that may come first when
\* names is sorted by birth time, oldest first; files born in the same
\* instant come in either order.
OldestSets(files, names, k) ==
  {D \in SUBSET names :
     /\ Cardinality(D) = k
     /\ \A d \in D, f \in names \ D : files[d].birth <= files[f].birth}

\* The number of entries the files of D hold.
RECURSIVE TotalSize(_, _)
TotalSize(files, D) ==
  IF D = {} THEN 0
  ELSE LET d == CHOOSE x \in D : TRUE IN files[d].size + TotalSize(files, D \ {d})

\* unlinkSync on each file of D; what is deleted is kept with its birth time.
Unlink(w, D) ==
  [w EXCEPT !.files = Restrict(@, DOMAIN @ \ D),
            !.deleted = {<<d, w.files[d].birth>> : d \in D},
            !.freed = TotalSize(w.files, D),
            !.ops = @ \cup {"unlink"}]

\* cleanupOldLogs: the states it may leave.  A failing unlinkSync stops the
\* forEach after any number of files.
CleanupOldLogs(w, cfg, F) ==
  IF "readdir" \in F THEN {Report(Fails(w, "readdir"), "cleanup")}
  ELSE
    LET w1 == Did(w, "readdir")
        names == {n \in DOMAIN w.files : MatchesPrefix(n)}
        k == Cardinality(names) - cfg.maxFiles
    IN IF Cardinality(names) > cfg.maxFiles
         THEN IF "birthtime" \in F THEN {Report(Fails(w1, "birthtime"), "cleanup")}
              ELSE IF "unlink" \in F
                THEN {Report(Fails(Unlink(Did(w1, "birthtime"), D), "unlink"), "cleanup") :
                        D \in UNION {OldestSets(w.files, names, j - 1) : j \in 1..k}}
              ELSE {Unlink(Did(w1, "birthtime"), D) : D \in OldestSets(w.files, names, k)}
         ELSE {w1}

\* How many files carry the prefix.
Matching(files) == Cardinality({n \in DOMAIN files : MatchesPrefix(n)})

\* rotateLogsIfNeeded at time now: the states it may leave.
RotateLogsIfNeeded(w, cfg, now, F) ==
  LET s == ShouldRotateFile(w, cfg, F)
  IN IF s.rotate
       THEN IF "rename" \in F THEN {Report(Fails(s.w, "rename"), "rotate")}
            ELSE {[c EXCEPT !.left = Matching(c.files)] :
                    c \in CleanupOldLogs(
                            [Did(s.w, "rename") EXCEPT
                               !.files = Rename(@, w.current, ArchivePath(now)),
                               !.current = LogFilePath(now),
                               !.rotated = TRUE], cfg, F)}
       ELSE {s.w}

\* The console part of log(): the entry's line on the channel of its level.
Mirror(w, cfg, level) ==
  IF cfg.consoleOutput
    THEN [w EXCEPT !.console = Append(@, <<Channel(level), "entry">>)]
    ELSE w

\* The try block of log() after rotateLogsIfNeeded left w.
WriteEntry(w, cfg, level, now, F) ==
  IF "append" \in F
    THEN [Fails(w, "append") EXCEPT !.threw = TRUE]
    ELSE Mirror([Did(w, "append") EXCEPT !.files = AppendFile(@, w.current, now)],
                cfg, level)

\* log() without its catch block.
Uncaught(w) == w

\* The catch block of log().
Caught(w) == IF w.threw THEN [Report(w, "write") EXCEPT !.threw = FALSE] ELSE w

\* The test at the head of log() with the comparison turned round.
RetainedBelow(cfg, level) ==
  cfg.enabled /\ ~(GetLevelValue(level) > GetLevelValue(cfg.minLevel))

\* The test at the head of log(): the entry is not dropped.
Retained(cfg, level) ==
  cfg.enabled /\ ~(GetLevelValue(level) < GetLevelValue(cfg.minLevel))

\* How many calls so far were made with failing file operations.
Faults == IF llast = << >> THEN 0 ELSE llast[1].faults

\* What is kept of a finished call: what it was given, what it did, the
\* entries the directory held when it began and those in the files it
\* deleted, the size of the current file it found (<< >> for a missing
\* file), the names it added to the directory and whether it changed
\* anything on disk.
Finished(level, retained, w, F) ==
  [level |-> level, retained |-> retained, console |-> w.console, ops |-> w.ops,
   failed |-> w.failed, rotated |-> w.rotated, deleted |-> w.deleted,
   left |-> w.left, threw |-> w.threw, freed |-> w.freed,
   held |-> TotalSize(lfiles, DOMAIN lfiles),
   size |-> IF lcurrent[1] \in DOMAIN lfiles THEN <<lfiles[lcurrent[1]].size>> ELSE << >>,
   added |-> DOMAIN w.files \ DOMAIN lfiles,
   changed |-> w.files # lfiles \/ w.current # lcurrent[1],
   faults |-> Faults + (IF F = {} THEN 0 ELSE 1)]

\* new Logger(customConfig) in a directory that holds dir.
Construct(cfg, dir) ==
  /\ lcfg = << >>
  /\ lcfg' = <<cfg>>
  /\ lfiles' = dir
  /\ lcurrent' = <<LogFilePath(lclock)>>
  /\ UNCHANGED <<lclock, llast>>
  /\ UNCHANGED <<inputVars, orchVars, opc, result, xpc, timers, response,
                 fetchCalls, xret, xthrown, lastCall, returned, aborted, logCalls>>
  /\ UNCHANGED <<msgVars, fmtVars, sessVars, appVars>>

\* A second passes.
Tick ==
  /\ lcfg # << >>
  /\ lclock < MaxClock
  /\ lclock' = lclock + 1
  /\ UNCHANGED <<lcfg, lfiles, lcurrent, llast>>
  /\ UNCHANGED <<inputVars, orchVars, opc, result, xpc, timers, response,
                 fetchCalls, xret, xthrown, lastCall, returned, aborted, logCalls>>
  /\ UNCHANGED <<msgVars, fmtVars, sessVars, appVars>>

\* log(entry) for an entry of the given level, the file operations of the
\* kinds in F failing.
Log(level, F) ==
  /\ lcfg # << >>
  /\ \A n \in DOMAIN lfiles : lfiles[n].size <= MaxFileSize
  /\ F # {} => Faults < MaxFaults
  /\ IF ~Retained(lcfg[1], level)
       THEN /\ llast' = <<Finished(level, FALSE, Began(lfiles, lcurrent[1]), F)>>
            /\ UNCHANGED <<lfiles, lcurrent>>
       ELSE \E r \in RotateLogsIfNeeded(Began(lfiles, lcurrent[1]), lcfg[1], lclock, F) :
              LET w == Caught(WriteEntry(r, lcfg[1], level, lclock, F))
              IN /\ llast' = <<Finished(level, TRUE, w, F)>>
                 /\ lfiles' = w.files
                 /\ lcurrent' = <<w.current>>
  /\ UNCHANGED <<lcfg, lclock>>
  /\ UNCHANGED <<inputVars, orchVars, opc, result, xpc, timers, response,
                 fetchCalls, xret, xthrown, lastCall, returned, aborted, logCalls>>
  /\ UNCHANGED <<msgVars, fmtVars, sessVars, appVars>>

\* ------------------------------------------------- a stand-in Executor
\* The envelopes a stand-in for sendChatMessage (a test double) may resolve
\* with: a failure of every kind, a failure with no error, and successes
\* with data, with an empty object, with null and with no data at all.
MockEnvelopes ==
  {Failure(ErrorResponse(t, USER_FRIENDLY_MESSAGES[t], "mock", << >>, << >>),
           DevInfo(TRUE, FALSE, 3)) : t \in ErrorType}
    \cup {[success |-> FALSE, data |-> << >>, error |-> << >>, devInfo |-> << >>]}
    \cup {Success(d, DevInfo(TRUE, TRUE, 3)) :
            d \in {<<JObject([text |-> <<"Hi there">>])>>, <<JObject(EmptyFields)>>,
                   <<JNull>>, << >>}}

\* The stand-in resolves with envelope r.
MockResolves(r) ==
  /\ entry = "send"
  /\ xpc = "call"
  /\ xpc' = "returned"
  /\ xret' = <<r>>
  /\ xthrown' = xthrown
  /\ lastCall' = <<[ret |-> r, status |-> 0, abortedIn |-> "none", fetched |-> FALSE]>>
  /\ returned' = Append(returned,
                        IF r.success THEN "success"
                        ELSE IF r.error = << >> THEN "none" ELSE r.error[1].type)
  /\ aborted' = Append(aborted, "none")
  /\ UNCHANGED <<inputVars, orchVars, opc, result, timers, response, fetchCalls, logCalls>>
  /\ UNCHANGED <<msgVars, fmtVars, logVars, sessVars, appVars>>

\* The values a stand-in may throw (reject with): an Error object, or
\* nothing at all, as Promise.reject() does.
MockThrown == {"Error", "undefined"}

\* The stand-in throws e.
MockThrows(e) ==
  /\ entry = "send"
  /\ xpc = "call"
  /\ xpc' = "threw"
  /\ xthrown' = <<e>>
  /\ returned' = Append(returned, IF e = "Error" THEN "threw" ELSE "threw nothing")
  /\ aborted' = Append(aborted, "none")
  /\ UNCHANGED <<inputVars, orchVars, opc, result, timers, response, fetchCalls, xret,
                 lastCall, logCalls>>
  /\ UNCHANGED <<msgVars, fmtVars, logVars, sessVars, appVars>>

\* ------------------------------------------------------------ session utils
\* uuidv4(): the n-th identifier generated.  No two are equal and none is
\* the empty string.
Uuidv4(n) == "sess-" \o ToString(n)

\* A deviation of GetOrCreate: a new identifier is stored on every call.
GetOrCreateAlwaysNew(store, ids) ==
  [ret |-> Uuidv4(ids + 1), store |-> <<Uuidv4(ids + 1)>>, ids |-> ids + 1]

\* getOrCreateSessionId on the item `store`, `ids` identifiers having been
\* generated: what it returns and what it leaves.  A stored '' is falsy.
GetOrCreate(store, ids) ==
  IF store # << >> /\ store[1] # ""
    THEN [ret |-> store[1], store |-> store, ids |-> ids]
    ELSE [ret |-> Uuidv4(ids + 1), store |-> <<Uuidv4(ids + 1)>>, ids |-> ids + 1]

\* A call of a session function is recorded with the item before and after.
Called(op, ret, after) ==
  scalls' = Append(scalls, [op |-> op, ret |-> ret, before |-> sstore, after |-> after])

\* A call of getOrCreateSessionId.
CallGetOrCreateSessionId ==
  /\ Len(scalls) < MaxCalls
  /\ LET g == GetOrCreate(sstore, sids)
     IN /\ sstore' = g.store
        /\ sids' = g.ids
        /\ Called("getOrCreate", <<g.ret>>, g.store)

\* A caller other than App calls getOrCreateSessionId.
GetOrCreateSessionId ==
  /\ CallGetOrCreateSessionId
  /\ UNCHANGED <<inputVars, orchVars, opc, result, xpc, timers, response, fetchCalls, xret,
                 xthrown, lastCall, returned, aborted, logCalls>>
  /\ UNCHANGED <<msgVars, fmtVars, logVars, appVars>>

\* clearSession()
ClearSession ==
  /\ Len(scalls) < MaxCalls
  /\ sstore' = << >>
  /\ sids' = sids
  /\ Called("clear", << >>, << >>)
  /\ UNCHANGED <<inputVars, orchVars, opc, result, xpc, timers, response, fetchCalls, xret,
                 xthrown, lastCall, returned, aborted, logCalls>>
  /\ UNCHANGED <<msgVars, fmtVars, logVars, appVars>>

\* resetSession()
ResetSession ==
  /\ Len(scalls) < MaxCalls
  /\ sstore' = <<Uuidv4(sids + 1)>>
  /\ sids' = sids + 1
  /\ Called("reset", <<Uuidv4(sids + 1)>>, <<Uuidv4(sids + 1)>>)
  /\ UNCHANGED <<inputVars, orchVars, opc, result, xpc, timers, response, fetchCalls, xret,
                 xthrown, lastCall, returned, aborted, logCalls>>
  /\ UNCHANGED <<msgVars, fmtVars, logVars, appVars>>

\* ---------------------------------------------------------------------- App
\* An entry of the conversation: content is text (with an optional image)
\* or an error; the id addMessage gives the n-th entry is a uuid.
TextEntry(n, type, content, image) ==
  [id |-> "msg-" \o ToString(n), type |-> type,
   content |-> [type |-> "text", content |-> <<content>>, image |-> image, error |-> << >>]]
ErrorEntry(n, error) ==
  [id |-> "msg-" \o ToString(n), type |-> "bot",
   content |-> [type |-> "error", content |-> << >>, image |-> << >>, error |-> <<error>>]]

\* The texts App falls back to (ASCII transliterations).
WelcomeText == <<"Xin chao! Toi la tro ly ao cua Fastdo.">>
NoAnswerText == <<"Xin loi, toi khong co cau tra loi cho yeu cau nay.">>
UnexpectedErrorText == "Da xay ra loi khong mong muon."

\* The Error sendMessage throws: it carries a message and no type.
ThrownError(message) == [message |-> message, type |-> << >>]

\* getErrorDetails(error): the error itself when it has a truthy type, else
\* null (<< >>).
GetErrorDetails(error) ==
  IF error.type # << >> /\ error.type[1] # ""
    THEN <<[type |-> error.type[1], message |-> error.message]>>
    ELSE << >>

\* The error handleSendMessage's catch puts in the entry:
\* getErrorDetails(error) || {type: UNKNOWN_ERROR, message: error.message || ...}
CatchDetails(error) ==
  IF GetErrorDetails(error) # << >>
    THEN GetErrorDetails(error)[1]
    ELSE [type |-> UNKNOWN_ERROR,
          message |-> IF error.message # "" THEN error.message ELSE UnexpectedErrorText]

\* ErrorMessage's getErrorDetails: the title shown for an error, by its type,
\* and whether the error's own message is shown (else a fixed one).
ErrorMessageDetails(error) ==
  CASE error.type = NETWORK_ERROR -> [title |-> "Loi Ket Noi", own |-> FALSE]
    [] error.type = SERVER_ERROR -> [title |-> "Loi May Chu", own |-> FALSE]
    [] error.type = TIMEOUT_ERROR -> [title |-> "Qua Thoi Gian", own |-> FALSE]
    [] error.type = AUTH_ERROR -> [title |-> "Loi Xac Thuc", own |-> FALSE]
    [] error.type = RATE_LIMIT_ERROR -> [title |-> "Gioi Han Truy Cap", own |-> FALSE]
    [] error.type = VALIDATION_ERROR ->
         [title |-> "Yeu Cau Khong Hop Le", own |-> error.message # ""]
    [] OTHER -> [title |-> "Loi Khong Xac Dinh", own |-> error.message # ""]

\* App mounts: the effect reads or creates the session id and adds the
\* welcome message to an empty conversation.
Mount ==
  /\ apc = "unmounted"
  /\ apc' = "idle"
  /\ CallGetOrCreateSessionId
  /\ asession' = GetOrCreate(sstore, sids).ret
  /\ messages' = IF messages = << >> THEN <<TextEntry(1, "bot", WelcomeText, << >>)>>
                 ELSE messages
  /\ UNCHANGED <<isLoading, atext>>
  /\ UNCHANGED <<inputVars, orchVars, opc, result, xpc, timers, response, fetchCalls, xret,
                 xthrown, lastCall, returned, aborted, logCalls>>
  /\ UNCHANGED <<msgVars, fmtVars, logVars>>

\* handleSendMessage(text) up to its await of sendMessage: a blank text
\* returns at once; else the user message is added, the loading flag set
\* and sendMessage called with the trimmed text.
HandleSendMessage(text) ==
  /\ apc = "idle"
  /\ atext' = <<text>>
  /\ asession' = asession
  /\ IF Trim(text) = << >>
       THEN /\ UNCHANGED <<apc, messages, isLoading>>
            /\ UNCHANGED <<inputVars, orchVars, opc, result, xpc, timers, response,
                           fetchCalls, xret, xthrown, lastCall, returned, aborted, logCalls>>
            /\ UNCHANGED <<msgVars, fmtVars, logVars, sessVars>>
       ELSE /\ messages' = Append(messages, TextEntry(Len(messages) + 1, "user", text, << >>))
            /\ isLoading' = TRUE
            /\ apc' = "awaiting"
            /\ CallSendMessage(Trim(text), asession)

\* A deviation of HandleSettles: the loading flag is cleared after a reply
\* only.
HandleSettlesNoFinally ==
  /\ apc = "awaiting"
  /\ mpc \in {"returned", "threw"}
  /\ apc' = "idle"
  /\ messages' = Append(messages,
       IF mpc = "returned"
         THEN TextEntry(Len(messages) + 1, "bot",
                        Or(<<mresult[1].text>>, <<NoAnswerText>>)[1], mresult[1].image)
         ELSE ErrorEntry(Len(messages) + 1, CatchDetails(ThrownError(mresult[1]))))
  /\ isLoading' = (mpc = "threw")
  /\ UNCHANGED <<asession, atext>>
  /\ UNCHANGED <<inputVars, orchVars, opc, result, xpc, timers, response, fetchCalls, xret,
                 xthrown, lastCall, returned, aborted, logCalls>>
  /\ UNCHANGED <<msgVars, fmtVars, logVars, sessVars>>

\* handleSendMessage after sendMessage settled: the reply is added, or the
\* catch adds the error entry; finally the loading flag is cleared.
HandleSettles ==
  /\ apc = "awaiting"
  /\ mpc \in {"returned", "threw"}
  /\ apc' = "idle"
  /\ messages' = Append(messages,
       IF mpc = "returned"
         THEN TextEntry(Len(messages) + 1, "bot",
                        Or(<<mresult[1].text>>, <<NoAnswerText>>)[1], mresult[1].image)
         ELSE ErrorEntry(Len(messages) + 1, CatchDetails(ThrownError(mresult[1]))))
  /\ isLoading' = FALSE
  /\ UNCHANGED <<asession, atext>>
  /\ UNCHANGED <<inputVars, orchVars, opc, result, xpc, timers, response, fetchCalls, xret,
                 xthrown, lastCall, returned, aborted, logCalls>>
  /\ UNCHANGED <<msgVars, fmtVars, logVars, sessVars>>

\* --------------------------------------------------------- specification
Init ==
  /\ entry = "none"
  /\ prompt = << >>
  /\ sessionId = ""
  /\ opts = DefaultOptions
  /\ opc = "idle"
  /\ retries = 0
  /\ lastResponse = << >>
  /\ ologs = 0
  /\ waits = << >>
  /\ result = << >>
  /\ xpc = "idle"
  /\ timers = << >>
  /\ response = << >>
  /\ fetchCalls = 0
  /\ xret = << >>
  /\ xthrown = << >>
  /\ lastCall = << >>
  /\ returned = << >>
  /\ aborted = << >>
  /\ logCalls = << >>
  /\ mpc = "idle"
  /\ mresult = << >>
  /\ fgiven = << >>
  /\ fdata = << >>
  /\ fdev = FALSE
  /\ fouts = << >>
  /\ fagain = << >>
  /\ lcfg = << >>
  /\ lfiles = << >>
  /\ lcurrent = << >>
  /\ lclock = 0
  /\ llast = << >>
  /\ sstore = << >>
  /\ sids = 0
  /\ scalls = << >>
  /\ apc = "unmounted"
  /\ messages = << >>
  /\ isLoading = FALSE
  /\ asession = ""
  /\ atext = << >>

\* The steps of sendChatMessage and of its environment.
ExecutorNext ==
  \/ SendChatMessage
  \/ \E status \in Statuses : FetchResolvesNotOk(status)
  \/ \E status \in Statuses : FetchResolvesOk(status)
  \/ FetchRejects
  \/ TimeoutWhileFetching
  \/ \E text \in Bodies : BodyArrives(text)
  \/ BodyFails
  \/ TimeoutWhileReading
  \/ \E i \in 1..Len(timers) : StaleTimerFires(i)

Next ==
  \/ \E p \in Prompts, s \in SessionIds : CallSendChatMessage(p, s)
  \/ \E p \in Prompts, s \in SessionIds, o \in DefaultDelayOptions :
        SendWebhookMessage(p, s, o)
  \/ \E p \in Prompts, s \in SessionIds : SendMessage(p, s)
  \/ SendMessageSettles
  \/ AfterAttempt
  \/ SleepDone
  \/ ExecutorNext

Spec == Init /\ [][Next]_vars


\* A step of an HTTP attempt in progress: fetch settles or is aborted by the
\* call's timer, and so is the reading of the body.
AttemptStep ==
  \/ \E status \in Statuses : FetchResolvesNotOk(status)
  \/ \E status \in Statuses : FetchResolvesOk(status)
  \/ FetchRejects
  \/ TimeoutWhileFetching
  \/ \E text \in Bodies : BodyArrives(text)
  \/ BodyFails
  \/ TimeoutWhileReading

\* sendWebhookMessage around the real sendChatMessage.  The sends followed
\* to their end are those of the prompts without padding and of the options
\* outside dev mode (padding and dev mode change what an envelope holds,
\* never which step comes next).
NextLive ==
  \/ \E p \in {q \in Prompts : q = Trim(q)}, s \in SessionIds,
        o \in {d \in DefaultDelayOptions : ~d.isDevMode} :
        SendWebhookMessage(p, s, o)
  \/ AfterAttempt
  \/ SleepDone
  \/ ExecutorNext

\* The event loop runs every continuation that is ready and every timer
\* that is due; each HTTP attempt completes or is aborted by its timeout.
SpecLive ==
  /\ Init
  /\ [][NextLive]_vars
  /\ WF_vars(SendChatMessage \/ AttemptStep \/ AfterAttempt \/ SleepDone)

\* sendWebhookMessage around a stand-in for sendChatMessage.
NextMock ==
  \/ \E p \in Prompts, s \in SessionIds, o \in Options : SendWebhookMessage(p, s, o)
  \/ \E r \in MockEnvelopes : MockResolves(r)
  \/ \E e \in MockThrown : MockThrows(e)
  \/ AfterAttempt
  \/ AfterThrow
  \/ SleepDone

SpecMock == Init /\ [][NextMock]_vars

\* Callers of formatWebhookResponse.
NextFormat ==
  \/ \E data \in FormatPayloads, isDevMode \in BOOLEAN : GivePayload(data, isDevMode)
  \/ FormatCall
  \/ FormatOutput

SpecFormat == Init /\ [][NextFormat]_vars

\* A Logger and its callers.
NextLogger ==
  \/ \E cfg \in LoggerConfigs, dir \in InitialDirectories : Construct(cfg, dir)
  \/ Tick
  \/ \E level \in Levels, F \in Failures : Log(level, F)

SpecLogger == Init /\ [][NextLogger]_vars


\* Callers of the session functions.
NextSession ==
  \/ GetOrCreateSessionId
  \/ ClearSession
  \/ ResetSession

SpecSession == Init /\ [][NextSession]_vars

\* App around sendMessage and the real sendChatMessage, under a fair event
\* loop in which each HTTP attempt completes or is aborted by its timeout.
NextApp ==
  \/ Mount
  \/ \E text \in Prompts : HandleSendMessage(text)
  \/ SendMessageSettles
  \/ HandleSettles
  \/ AfterAttempt
  \/ SleepDone
  \/ ExecutorNext

SpecApp ==
  /\ Init
  /\ [][NextApp]_vars
  /\ WF_vars(SendChatMessage \/ AttemptStep \/ AfterAttempt \/ SleepDone
                \/ SendMessageSettles \/ HandleSettles)

\* ------------------------------------------------------------- properties
\* The kind the specification gives a response status that is not ok.
ClaimedKind(status) ==
  IF status \in {401, 403} THEN AUTH_ERROR
  ELSE IF status = 429 THEN RATE_LIMIT_ERROR
  ELSE IF status >= 500 THEN SERVER_ERROR
  ELSE IF status = 400 THEN VALIDATION_ERROR
  ELSE UNKNOWN_ERROR

\* The kind of a failure envelope ("" when it carries no error).
KindOf(r) == IF r.error = << >> THEN "" ELSE r.error[1].type

\* Whether the inputs of the call are invalid: the message trims to empty
\* or the session id is empty.
InvalidInputs == Trim(prompt) = << >> \/ sessionId = ""

\* Whether the send runs with the default retry options.
DefaultRetryOptions ==
  /\ opts.maxRetries = MAX_RETRIES
  /\ opts.retryDelay = RETRY_DELAY
  /\ opts.retryableErrors = DefaultRetryable

RECURSIVE SumSeq(_)
SumSeq(q) == IF q = << >> THEN 0 ELSE Head(q) + SumSeq(Tail(q))

\* C1: for every response status that is not 2xx, sendChatMessage returns
\* success=false with kind AUTH for 401 and 403, RATE_LIMIT for 429, SERVER
\* for 500 and above, VALIDATION for 400 and UNKNOWN for any other status.
C1_StatusClassified ==
  (lastCall # << >> /\ lastCall[1].status # 0 /\ ~Ok(lastCall[1].status)) =>
    /\ ~lastCall[1].ret.success
    /\ KindOf(lastCall[1].ret) = ClaimedKind(lastCall[1].status)

\* C2: a send with the default options whose endpoint answers 401, 403, 400
\* or 429 makes one HTTP request, never waits, and returns on that first
\* failure with kind AUTH, VALIDATION or RATE_LIMIT.
C2_ClientStatusNotRetried ==
  (/\ entry = "send"
   /\ DefaultRetryOptions
   /\ lastCall # << >>
   /\ lastCall[1].status \in {400, 401, 403, 429}
   /\ xpc # "returned") =>
    /\ opc = "done"
    /\ fetchCalls = 1
    /\ waits = << >>
    /\ result # << >>
    /\ ~result[1].success
    /\ KindOf(result[1]) = ClaimedKind(lastCall[1].status)

\* C3: when every attempt of a send returns a retryable failure and
\* maxRetries >= 0, the send never makes more than maxRetries + 1 attempts,
\* and it returns, with a failure, after exactly maxRetries + 1 of them.
C3_RetryBound ==
  (/\ entry = "send"
   /\ opts.maxRetries >= 0
   /\ \A i \in DOMAIN returned : returned[i] \in opts.retryableErrors) =>
    /\ Len(returned) <= opts.maxRetries + 1
    /\ (opc = "done" /\ returned # << >>) =>
         /\ Len(returned) = opts.maxRetries + 1
         /\ result # << >>
         /\ ~result[1].success

\* C3 witness: the default three attempts, each a NETWORK failure, and the
\* send has returned a failure.
C3_Witness ==
  /\ opc = "done"
  /\ DefaultRetryOptions
  /\ returned = <<NETWORK_ERROR, NETWORK_ERROR, NETWORK_ERROR>>
  /\ result # << >>
  /\ ~result[1].success

\* C4: the i-th wait of a send is retryDelay * i (the wait after attempt
\* index i - 1); a wait is started only while retries < maxRetries; none
\* follows the last attempt; and the waits of an exhausted send add up to
\* retryDelay * (1 + 2 + ... + maxRetries).
C4_LinearBackoff ==
  entry = "send" =>
    /\ \A i \in 1..Len(waits) : waits[i] = opts.retryDelay * i
    /\ Len(waits) = retries + (IF opc = "sleeping" THEN 1 ELSE 0)
    /\ opc = "sleeping" => retries < opts.maxRetries
    /\ (opc = "done" /\ returned # << >>) => Len(waits) = Len(returned) - 1
    /\ (opc = "done" /\ opts.maxRetries >= 0 /\ Len(returned) = opts.maxRetries + 1) =>
         SumSeq(waits) = opts.retryDelay * ((opts.maxRetries * (opts.maxRetries + 1)) \div 2)

\* C4 witness: an exhausted send with the default options waited 1000 ms and
\* then 2000 ms.
C4_Witness ==
  /\ opc = "done"
  /\ DefaultRetryOptions
  /\ Len(returned) = 3
  /\ waits = <<RETRY_DELAY, 2 * RETRY_DELAY>>

\* C5: once an attempt returns a failure whose kind is not retryable, the
\* send has returned that failure with its kind unchanged and no wait
\* follows the attempt; when it is the first attempt, it is the only one and
\* the send never waited.
C5_NonRetryableReturned ==
  LET n == Len(returned)
  IN (/\ entry = "send"
      /\ n > 0
      /\ returned[n] \in ErrorType \ opts.retryableErrors
      /\ xpc # "returned") =>
       /\ opc = "done"
       /\ result # << >>
       /\ ~result[1].success
       /\ KindOf(result[1]) = returned[n]
       /\ Len(waits) = n - 1

\* C5 witness: the first attempt returned AUTH with the default retryable
\* kinds, and the send returned it.
C5_Witness ==
  /\ opc = "done"
  /\ opts.retryableErrors = DefaultRetryable
  /\ returned = <<AUTH_ERROR>>
  /\ waits = << >>
  /\ result # << >>
  /\ KindOf(result[1]) = AUTH_ERROR

\* C6: whenever the timer of a call fires before the call has finished,
\* while fetch is pending or while the body is read, sendChatMessage returns
\* success=false with kind TIMEOUT.
C6_TimeoutClassified ==
  (lastCall # << >> /\ lastCall[1].abortedIn # "none") =>
    /\ ~lastCall[1].ret.success
    /\ KindOf(lastCall[1].ret) = TIMEOUT_ERROR

\* C7: a send (TIMEOUT retryable, maxRetries >= 0) whose every attempt is
\* ended by its timeout timer makes exactly maxRetries + 1 attempts and
\* returns success=false with kind TIMEOUT.
C7_TimeoutEveryAttempt ==
  (/\ entry = "send"
   /\ opc = "done"
   /\ opts.maxRetries >= 0
   /\ opts.retryableErrors = DefaultRetryable
   /\ aborted # << >>
   /\ \A i \in DOMAIN aborted : aborted[i] # "none") =>
    /\ Len(aborted) = opts.maxRetries + 1
    /\ result # << >>
    /\ ~result[1].success
    /\ KindOf(result[1]) = TIMEOUT_ERROR

\* C8: a call of sendChatMessage whose message trims to empty or whose
\* session id is empty never calls fetch and returns success=false with kind
\* VALIDATION.
C8_ExecutorValidation ==
  (entry = "execute" /\ InvalidInputs) =>
    /\ fetchCalls = 0
    /\ xpc \notin {"fetching", "reading"}
    /\ xpc # "call" =>
         /\ opc = "done"
         /\ result # << >>
         /\ ~result[1].success
         /\ KindOf(result[1]) = VALIDATION_ERROR

\* C8 witness: sendChatMessage was called with a blank message and a session
\* id, and has returned.
C8_Witness ==
  /\ entry = "execute"
  /\ opc = "done"
  /\ prompt = <<" ">>
  /\ sessionId # ""
  /\ result # << >>
  /\ KindOf(result[1]) = VALIDATION_ERROR

\* C9: a send whose message trims to empty or whose session id is empty
\* returns success=false with kind VALIDATION at once: sendChatMessage is
\* never called (no timer armed, no fetch), nothing is retried and nothing
\* is waited for.
C9_OrchestratorValidation ==
  (entry = "send" /\ InvalidInputs) =>
    /\ opc = "done"
    /\ result # << >>
    /\ ~result[1].success
    /\ KindOf(result[1]) = VALIDATION_ERROR
    /\ xpc = "idle"
    /\ returned = << >>
    /\ timers = << >>
    /\ fetchCalls = 0
    /\ retries = 0
    /\ waits = << >>

\* C9 witness: sendWebhookMessage was called with a blank message and a
\* session id, and has returned.
C9_Witness ==
  /\ entry = "send"
  /\ opc = "done"
  /\ prompt = <<" ">>
  /\ sessionId # ""
  /\ result # << >>
  /\ KindOf(result[1]) = VALIDATION_ERROR

\* Whether an envelope has exactly one of payload and error: the payload
\* (data that is neither undefined nor null) iff success, the error iff not.
ExactlyOne(r) ==
  /\ r.success <=> (r.data # << >> /\ r.data[1] # JNull)
  /\ ~r.success <=> r.error # << >>

\* C10: every envelope returned by sendChatMessage or by sendWebhookMessage
\* has exactly one of payload and error: the payload iff success=true, the
\* error iff success=false.
C10_PayloadXorError ==
  /\ lastCall # << >> => ExactlyOne(lastCall[1].ret)
  /\ result # << >> => ExactlyOne(result[1])

\* Whether the HTTP call of a finished sendChatMessage call failed: fetch
\* rejected (no status), the status was not 2xx, or the timer aborted it.
HttpFailed(c) ==
  c.fetched /\ (c.status = 0 \/ ~Ok(c.status) \/ c.abortedIn # "none")

\* C11: sendChatMessage never throws.  Every call that was started has
\* resolved with an envelope unless its request is still pending; a call
\* whose fetch rejected, was aborted or met a status that is not 2xx resolved
\* with success=false; and every envelope with success=false carries an
\* error of a known kind and no data.
C11_ExecutorNeverThrows ==
  /\ xpc # "threw"
  /\ xthrown = << >>
  /\ \A i \in DOMAIN returned : returned[i] \in ErrorType \cup {"success"}
  /\ Len(returned) = Len(timers) - (IF xpc \in {"fetching", "reading"} THEN 1 ELSE 0)
  /\ lastCall # << >> =>
       LET c == lastCall[1]
       IN /\ HttpFailed(c) => ~c.ret.success
          /\ ~c.ret.success =>
               /\ c.ret.error # << >>
               /\ c.ret.error[1].type \in ErrorType
               /\ c.ret.data = << >>

\* C11 witness: a direct call whose fetch rejected has returned a failure
\* envelope.
C11_Witness ==
  /\ entry = "execute"
  /\ opc = "done"
  /\ lastCall # << >>
  /\ lastCall[1].fetched
  /\ lastCall[1].status = 0
  /\ lastCall[1].abortedIn = "none"
  /\ result = <<lastCall[1].ret>>
  /\ ~result[1].success
  /\ result[1].error # << >>

\* C12 as stated: sendWebhookMessage never throws, whatever sendChatMessage
\* does on an attempt (resolves with a success, resolves with any failure,
\* or throws): it never ends by rejecting, and when it has ended it has
\* returned an envelope.
C12_OrchestratorNeverThrows ==
  entry = "send" =>
    /\ opc # "threw"
    /\ opc = "done" => result # << >>

\* C12 amended: sendWebhookMessage rejects only when the latest attempt threw
\* undefined or null.  While every attempt resolved with an envelope or
\* threw an Error it does not reject; an Error thrown by an attempt is turned
\* into a failure of kind UNKNOWN and the loop goes on, to a wait or to the
\* return; and when sendWebhookMessage has ended it has returned an
\* envelope.
C12_NeverThrowsOnError ==
  LET n == Len(returned)
  IN entry = "send" =>
       /\ opc = "threw" => (n > 0 /\ returned[n] = "threw nothing")
       /\ (\A i \in 1..n : returned[i] # "threw nothing") => opc # "threw"
       /\ opc = "done" => result # << >>
       /\ (n > 0 /\ returned[n] = "threw" /\ xpc = "idle") =>
            /\ opc \in {"sleeping", "done"}
            /\ lastResponse # << >>
            /\ ~lastResponse[1].success
            /\ KindOf(lastResponse[1]) = UNKNOWN_ERROR
            /\ opc = "done" =>
                 (~result[1].success /\ KindOf(result[1]) = UNKNOWN_ERROR)

\* C12 witness: every attempt of a send with the default options threw an
\* Error, and the send has returned a failure.
C12_Witness ==
  /\ entry = "send"
  /\ opc = "done"
  /\ DefaultRetryOptions
  /\ returned = <<"threw", "threw", "threw">>
  /\ result # << >>
  /\ ~result[1].success

\* Whether an envelope's payload is empty or absent: no data, null, or an
\* object without keys.
EmptyPayload(r) == ~Truthy(r.data) \/ NoKeys(r.data)

\* C13: when an attempt returned success=true with an empty or absent
\* payload, sendWebhookMessage holds it as a failure of kind UNKNOWN once it
\* has looked at it; and the envelope sendWebhookMessage returns never has
\* success=true with an empty or absent payload.
C13_EmptySuccessBecomesUnknown ==
  entry = "send" =>
    /\ (/\ lastCall # << >>
        /\ lastCall[1].ret.success
        /\ EmptyPayload(lastCall[1].ret)
        /\ xpc = "idle") =>
         /\ lastResponse # << >>
         /\ ~lastResponse[1].success
         /\ KindOf(lastResponse[1]) = UNKNOWN_ERROR
    /\ result # << >> => ~(result[1].success /\ EmptyPayload(result[1]))

\* The payload the specification gives the body of a 2xx response: the
\* placeholder text with the synthetic flag for a body that trims to empty,
\* the parsed value for valid JSON, and the raw body as text otherwise.
ClaimedPayload(text) ==
  IF Trim(text) = << >>
    THEN <<JObject([text |-> EmptyBodyText, raw |-> <<"emptyResponse">>])>>
  ELSE IF JSONParse(text) # << >> THEN JSONParse(text)
  ELSE <<JObject([text |-> text, raw |-> text])>>

\* C14: whenever the body of a 2xx response arrives, whatever it is,
\* sendChatMessage returns success=true with no error, and the payload is
\* the placeholder for an empty body, the parsed value for valid JSON and
\* the raw text for anything else.
C14_BodyHandling ==
  [][\A text \in Bodies :
       (xpc = "reading" /\ BodyArrives(text)) =>
         /\ Ok(lastCall'[1].status)
         /\ lastCall'[1].ret.success
         /\ lastCall'[1].ret.error = << >>
         /\ lastCall'[1].ret.data = ClaimedPayload(text)]_vars

\* C14 witness: a 200 response with a body that is not JSON was returned as
\* a success whose text is the raw body.
C14_Witness ==
  /\ lastCall # << >>
  /\ lastCall[1].status = 200
  /\ lastCall[1].ret.success
  /\ lastCall[1].ret.data # << >>
  /\ lastCall[1].ret.data[1].jtype = "object"
  /\ "text" \in DOMAIN lastCall[1].ret.data[1].fields
  /\ lastCall[1].ret.data[1].fields.text = BodyPlain

\* C15: when fetch rejects or the connection breaks while the body is read,
\* and the call's timer did not fire, sendChatMessage returns success=false
\* with kind NETWORK; when processResponse classified the response SERVER
\* (status 500 and above), sendChatMessage returns kind SERVER.
C15_TransportFailure ==
  [][/\ (FetchRejects \/ BodyFails) =>
          /\ lastCall'[1].abortedIn = "none"
          /\ ~lastCall'[1].ret.success
          /\ KindOf(lastCall'[1].ret) = NETWORK_ERROR
     /\ \A status \in Statuses :
          (FetchResolvesNotOk(status) /\ StatusError(status).thrown.type = SERVER_ERROR) =>
            /\ ~lastCall'[1].ret.success
            /\ KindOf(lastCall'[1].ret) = SERVER_ERROR]_vars

\* C15 witness: the connection broke while the body of a 200 response was
\* read, no timer fired, and the call returned kind NETWORK.
C15_Witness ==
  /\ lastCall # << >>
  /\ lastCall[1].status = 200
  /\ lastCall[1].abortedIn = "none"
  /\ ~lastCall[1].ret.success
  /\ KindOf(lastCall[1].ret) = NETWORK_ERROR

\* The "retrying" notices.
RetryNotices == {USER_RETRY_MESSAGES[t] : t \in ErrorType}

\* C16: the failure sendWebhookMessage returns never carries a "retrying"
\* notice; and when it returns after its last attempt (attempt maxRetries +
\* 1) failed, the envelope has the kind of that attempt and the message the
\* attempt came back with.
C16_TerminalMessage ==
  LET n == Len(returned)
  IN (entry = "send" /\ opc = "done" /\ result # << >> /\ result[1].error # << >>) =>
       /\ result[1].error[1].message \notin RetryNotices
       /\ (n > 0 /\ n = opts.maxRetries + 1 /\ returned[n] \in ErrorType) =>
            /\ KindOf(result[1]) = returned[n]
            /\ result[1].error[1].message = lastCall[1].ret.error[1].message

\* C17: when a send with valid inputs has returned and no attempt resolved
\* with an envelope (every attempt threw, or none was made), the envelope
\* returned is the fallback: success=false, kind UNKNOWN, and the fixed
\* "could not reach server" message.
C17_FallbackWhenNoEnvelope ==
  (/\ entry = "send"
   /\ opc = "done"
   /\ ~InvalidInputs
   /\ \A i \in DOMAIN returned : returned[i] = "threw") =>
    /\ result # << >>
    /\ ~result[1].success
    /\ KindOf(result[1]) = UNKNOWN_ERROR
    /\ result[1].error[1].message = FallbackError(opts, ologs).error[1].message

\* Whether a failure carries the message USER_FRIENDLY_MESSAGES gives its
\* kind.
TableMessage(r) ==
  r.error # << >> => r.error[1].message = USER_FRIENDLY_MESSAGES[r.error[1].type]

\* C18: the message of a failure is a function of its kind alone.  For
\* every kind sendChatMessage returns, one of its envelopes carries the
\* message of USER_FRIENDLY_MESSAGES (a missing session id for VALIDATION, the
\* inner catch for TIMEOUT, NETWORK and SERVER), so every failure returned by
\* sendChatMessage or by sendWebhookMessage carries the table's message of
\* its kind.
C18_MessageByKind ==
  /\ lastCall # << >> => TableMessage(lastCall[1].ret)
  /\ result # << >> => TableMessage(result[1])

\* C19: with isDevMode=false the envelope sendWebhookMessage returns has no
\* devInfo, on the success path and on every failure path.
C19_DevInfoOnlyInDevMode ==
  (entry = "send" /\ result # << >> /\ ~opts.isDevMode) => result[1].devInfo = << >>

\* The requests of the send that were issued and have not ended: fetch
\* calls made less sendChatMessage calls finished (every call of a send
\* with valid inputs makes one).
InFlight == fetchCalls - Len(returned)

\* C20: the attempts of a send are sequential.  At most one request is in
\* flight, and only while sendChatMessage is suspended on it; while the
\* request of attempt i + 1 is in flight, the i attempts before it have
\* returned and the i waits after them have been started and have elapsed;
\* and no request is in flight during a wait or after the send returned.
C20_SequentialAttempts ==
  entry = "send" =>
    /\ InFlight \in {0, 1}
    /\ InFlight = 1 <=> xpc \in {"fetching", "reading"}
    /\ InFlight = 1 =>
         /\ opc = "calling"
         /\ Len(returned) = fetchCalls - 1
         /\ Len(waits) = fetchCalls - 1
         /\ retries = fetchCalls - 1
    /\ opc \in {"sleeping", "done"} => InFlight = 0

\* C20 witness: the request of the second attempt is in flight after the
\* first attempt returned and the first wait elapsed.
C20_Witness ==
  /\ entry = "send"
  /\ xpc = "fetching"
  /\ fetchCalls = 2
  /\ Len(returned) = 1
  /\ waits = <<opts.retryDelay>>
  /\ retries = 1

C22_StatusCarried ==
  (lastCall # << >> /\ lastCall[1].status # 0 /\ ~Ok(lastCall[1].status)) =>
    /\ ~lastCall[1].ret.success
    /\ lastCall[1].ret.error # << >>
    /\ lastCall[1].ret.error[1].status = <<lastCall[1].status>>
    /\ lastCall[1].ret.error[1].devMessage # ""


\* The text a payload has set (a non-empty string), by the claimed precedence.
SetField(data, k) == k \in DOMAIN data.fields /\ data.fields[k] # << >>

ClaimedText(data) ==
  IF SetField(data, "text") THEN data.fields["text"]
  ELSE IF SetField(data, "message") THEN data.fields["message"]
  ELSE NoResponseText

ClaimedImage(data) ==
  IF SetField(data, "image") THEN <<data.fields["image"]>>
  ELSE IF SetField(data, "imageUrl") THEN <<data.fields["imageUrl"]>>
  ELSE IF SetField(data, "url") THEN <<data.fields["url"]>>
  ELSE << >>

C24_FormatterPure ==
  /\ fdata = fgiven
  /\ Len(fouts) = 2 => fouts[2] = fouts[1]
  /\ fagain # << >> =>
       /\ fagain[1].text = fouts[1].text
       /\ fagain[1].image = fouts[1].image

\* C24 (amended): as C24, but formatting the returned object again returns
\* the same image only up to emptiness: an image that is the empty string
\* (the payload's url when image and imageUrl are not set) comes back absent.
C24_PureUpToEmptyImage ==
  /\ fdata = fgiven
  /\ Len(fouts) = 2 => fouts[2] = fouts[1]
  /\ fagain # << >> =>
       /\ fagain[1].text = fouts[1].text
       /\ IF TruthyValue(fouts[1].image)
            THEN fagain[1].image = fouts[1].image
            ELSE fagain[1].image = << >>

\* A payload whose only image key is an empty url, formatted twice and its
\* output formatted again: the first output has the empty image.
C24_Witness ==
  /\ Len(fouts) = 2
  /\ fagain # << >>
  /\ ~SetField(fgiven[1], "text")
  /\ SetField(fgiven[1], "message")
  /\ Field(fgiven[1], "url") = << << >> >>
  /\ fouts[1].image = << << >> >>
  /\ fdev


\* The first request of a send was answered 200 with the body {"text": t}.
AnsweredWithText ==
  /\ entry = "send"
  /\ ~EmptyPrompt(prompt)
  /\ ~MissingSession(sessionId)
  /\ Len(returned) = 1
  /\ lastCall[1].status = 200
  /\ lastCall[1].json = JSONParse(BodyText)

\* C25: a send with a valid message and session against an endpoint that
\* answers 200 with {"text": t} makes exactly one HTTP request and ends in a
\* success carrying that payload, whatever the options; the text sendMessage
\* returns for it is t.
C25_HappyPath ==
  AnsweredWithText =>
    /\ fetchCalls = 1
    /\ opc \in {"calling", "done"}
    /\ opc = "calling" => xpc = "returned"
    /\ opc = "done" =>
         /\ xpc = "idle"
         /\ result[1].success
         /\ result[1].data = <<JObject([text |-> <<"Hi there">>])>>
         /\ result[1].error = << >>
    /\ mpc \in {"idle", "awaiting", "returned"}
    /\ mpc = "returned" => mresult[1].text = <<"Hi there">>

\* sendMessage returned after one request answered 200 with {"text": t}.
C25_Witness ==
  /\ AnsweredWithText
  /\ opc = "done"
  /\ mpc = "returned"
  /\ mresult[1].text = <<"Hi there">>
  /\ fetchCalls = 1


\* The severities, least first.
SeverityOrder == <<"INFO", "WARNING", "ERROR", "CRITICAL">>
Rank(level) == CHOOSE i \in 1..4 : SeverityOrder[i] = level

\* The call the Logger finished last.
LastLog == llast[1]

\* No file operation of the last call failed, but for the stat of a current
\* file that does not exist yet.
CleanCall ==
  \/ LastLog.failed = {}
  \/ LastLog.failed = {"stat"} /\ LastLog.size = << >>

\* C26: an entry is dropped exactly when the Logger is disabled or the
\* entry's severity is below the minimum (INFO < WARNING < ERROR <
\* CRITICAL); a dropped entry causes no file operation, no console line and
\* no change on disk; a retained entry goes through the rotation check.
C26_DropsBelowMinimum ==
  llast # << >> =>
    /\ LastLog.retained <=>
         (lcfg[1].enabled /\ Rank(LastLog.level) >= Rank(lcfg[1].minLevel))
    /\ ~LastLog.retained =>
         /\ LastLog.ops = {}
         /\ LastLog.console = << >>
         /\ ~LastLog.changed
         /\ ~LastLog.rotated
         /\ LastLog.deleted = {}
    /\ LastLog.retained => "stat" \in LastLog.ops

\* An ERROR entry below the minimum CRITICAL was dropped while the current
\* file was over the size limit.
C26_Witness ==
  /\ llast # << >>
  /\ LastLog.level = "ERROR"
  /\ lcfg[1].minLevel = "CRITICAL"
  /\ lcfg[1].enabled
  /\ ~LastLog.retained
  /\ lcurrent[1] \in DOMAIN lfiles
  /\ lfiles[lcurrent[1]].size > lcfg[1].maxFileSizeBytes


\* The current file was over the size limit when the last call began.
WasOversized ==
  LastLog.size # << >> /\ LastLog.size[1] > lcfg[1].maxFileSizeBytes

\* C27: a retained write whose file operations succeed renames the current
\* file to a timestamped archive exactly when its size is above
\* maxFileSizeBytes, and then appends the entry to a fresh current file;
\* otherwise the entry goes to the current file as it is; one call adds at
\* most one archive.
C27_RotatesWhenOversized ==
  (llast # << >> /\ LastLog.retained /\ CleanCall) =>
    /\ LastLog.rotated <=> WasOversized
    /\ LastLog.rotated <=> "rename" \in LastLog.ops
    /\ lcurrent[1] \in DOMAIN lfiles
    /\ lfiles[lcurrent[1]].size =
         (IF LastLog.rotated \/ LastLog.size = << >> THEN 1 ELSE LastLog.size[1] + 1)
    /\ Cardinality({n \in LastLog.added : n[1] = "time"}) <= 1
    /\ LastLog.rotated =>
         \A n \in LastLog.added : n[1] = "time" => lfiles[n].size = LastLog.size[1]

\* A write found three entries in a current file limited to two, archived
\* them and started a new current file.
C27_Witness ==
  /\ llast # << >>
  /\ LastLog.retained
  /\ LastLog.failed = {}
  /\ LastLog.rotated
  /\ LastLog.size = <<3>>
  /\ lfiles[lcurrent[1]].size = 1
  /\ \E n \in LastLog.added : n[1] = "time" /\ lfiles[n].size = 3


\* The files carrying the prefix that the last call's cleanup left behind:
\* those in the directory now, but for the current file, which the call
\* created after the cleanup.
LeftBehind == {n \in DOMAIN lfiles : MatchesPrefix(n)} \ {lcurrent[1]}

\* C28: after a rotation whose file operations succeed, at most maxFiles
\* files carrying the prefix are left, no more files are deleted than that
\* takes, and every file deleted is at least as old, by creation time, as
\* every file left.
C28_CleanupKeepsNewest ==
  (llast # << >> /\ LastLog.rotated /\ CleanCall) =>
    /\ LastLog.left <= lcfg[1].maxFiles
    /\ LastLog.left = Cardinality(LeftBehind)
    /\ LastLog.deleted # {} => LastLog.left = lcfg[1].maxFiles
    /\ \A d \in LastLog.deleted : d[1] \notin DOMAIN lfiles
    /\ \A d \in LastLog.deleted, n \in LeftBehind : d[2] <= lfiles[n].birth

\* A rotation found four files with the prefix where two may stay, deleted
\* the two oldest and left the file of the day before and the new archive.
C28_Witness ==
  /\ llast # << >>
  /\ LastLog.rotated
  /\ LastLog.failed = {}
  /\ lcfg[1].maxFiles = 2
  /\ LastLog.deleted = {<< <<"time", -2>>, -3 >>, << <<"time", -3>>, -3 >>}
  /\ <<"date", -1>> \in DOMAIN lfiles
  /\ <<"other", 0>> \in DOMAIN lfiles
  /\ LastLog.left = 2


\* The console lines of the last call.
ConsoleLines == {LastLog.console[i] : i \in 1..Len(LastLog.console)}

\* The channel claimed for each severity.
ClaimedChannel(level) ==
  IF level = "INFO" THEN "log" ELSE IF level = "WARNING" THEN "warn" ELSE "error"

\* C29: with console mirroring on, every retained entry is written to the
\* console channel of its severity, whatever became of the rotation and of
\* the append.
C29_RetainedEntryMirrored ==
  (llast # << >> /\ LastLog.retained /\ lcfg[1].consoleOutput) =>
    <<ClaimedChannel(LastLog.level), "entry">> \in ConsoleLines

\* The same when the append succeeds, whatever became of the rotation.
C29_MirroredWhenAppended ==
  (llast # << >> /\ LastLog.retained /\ lcfg[1].consoleOutput
     /\ "append" \notin LastLog.failed) =>
    /\ <<ClaimedChannel(LastLog.level), "entry">> \in ConsoleLines
    /\ \A l \in ConsoleLines : l[2] = "entry" => l[1] = ClaimedChannel(LastLog.level)

\* The console report each failing file operation is claimed to leave; the
\* stat of the rotation check is the one failure the Logger swallows.
ReportOf(op) ==
  CASE op = "rename" -> {<<"error", "rotate">>}
    [] op \in {"readdir", "birthtime", "unlink"} -> {<<"error", "cleanup">>}
    [] op = "append" -> {<<"error", "write">>}
    [] OTHER -> {}

C31_AppendOnly ==
  llast # << >> =>
    TotalSize(lfiles, DOMAIN lfiles) + LastLog.freed =
      LastLog.held + (IF "append" \in LastLog.ops \ LastLog.failed THEN 1 ELSE 0)

\* The same for calls that do not rotate.
C31_AppendOnlyWithoutRotation ==
  (llast # << >> /\ ~LastLog.rotated) =>
    TotalSize(lfiles, DOMAIN lfiles) + LastLog.freed =
      LastLog.held + (IF "append" \in LastLog.ops \ LastLog.failed THEN 1 ELSE 0)


\* The envelope has success = true and a payload.
HasPayload(r) == r.success /\ r.data # << >> /\ r.data[1] # JNull

\* C33: sendMessage returns, and then the formatted payload, only when the
\* final envelope of sendWebhookMessage has success = true and a payload; in
\* every other case it throws an Error whose message is the message of the
\* envelope's error, or 'Failed to get response from server' when the
\* envelope has no error.
C33_SendMessageOutcome ==
  (mpc \in {"returned", "threw"} /\ opc = "done") =>
    /\ mpc = "returned" <=> HasPayload(result[1])
    /\ mpc = "returned" =>
         /\ mresult[1].text = ClaimedText(result[1].data[1])
         /\ TruthyValue(mresult[1].image) => mresult[1].image = ClaimedImage(result[1].data[1])
    /\ mpc = "threw" =>
         mresult[1] = (IF result[1].error # << >> THEN result[1].error[1].message
                       ELSE "Failed to get response from server")

\* sendMessage threw the message of the envelope of a failed send.
C33_Witness ==
  /\ mpc = "threw"
  /\ opc = "done"
  /\ ~result[1].success
  /\ result[1].error # << >>
  /\ KindOf(result[1]) = SERVER_ERROR
  /\ mresult = <<result[1].error[1].message>>


\* The latest call of sendChatMessage has returned.
CallReturned == lastCall # << >> /\ (xpc = "returned" \/ (entry = "execute" /\ opc = "done"))

\* How many entries of the latest call satisfy P.
CountLogs(P(_)) == Cardinality({i \in 1..Len(logCalls) : P(logCalls[i])})

IsStartEntry(e) == e.level = "INFO" /\ e.message = "Starting chat request"
IsReceivedEntry(e) == e.level = "INFO" /\ e.message = "Received response with status"
IsFailureEntry(e) == e.level \in {"ERROR", "WARNING"}

\* C34: a call of sendChatMessage hands the logger exactly one entry at its
\* start, exactly one when a response status is received (none when no
\* response came), and exactly one ERROR or WARNING entry when it returns a
\* failure.
C34_OneEntryPerEvent ==
  CallReturned =>
    /\ CountLogs(IsStartEntry) = 1
    /\ CountLogs(IsReceivedEntry) = (IF lastCall[1].status # 0 THEN 1 ELSE 0)
    /\ ~lastCall[1].ret.success => CountLogs(IsFailureEntry) = 1

\* The same, but for the failures that come out of processResponse.
C34_OneEntryUnlessStatusFailure ==
  CallReturned =>
    /\ CountLogs(IsStartEntry) = 1
    /\ CountLogs(IsReceivedEntry) = (IF lastCall[1].status # 0 THEN 1 ELSE 0)
    /\ (~lastCall[1].ret.success /\ lastCall[1].status = 0) => CountLogs(IsFailureEntry) = 1


\* C35: an exception thrown by the Executor becomes a failure of kind
\* UNKNOWN and follows the retry rule of returned failures: when UNKNOWN is
\* not among the retryable kinds (as in the default set), the send returns
\* that failure with no further attempt and no further wait.
C35_ThrownFollowsRetryRule ==
  LET n == Len(returned)
  IN (/\ entry = "send"
      /\ n > 0
      /\ returned[n] = "threw"
      /\ xpc = "idle"
      /\ UNKNOWN_ERROR \notin opts.retryableErrors) =>
       /\ lastResponse # << >>
       /\ KindOf(lastResponse[1]) = UNKNOWN_ERROR
       /\ opc = "done"
       /\ Len(waits) = n - 1

\* The conversion alone: what a thrown Error leaves is a failure of kind
\* UNKNOWN.
C35_ThrownBecomesUnknown ==
  LET n == Len(returned)
  IN (entry = "send" /\ n > 0 /\ returned[n] = "threw" /\ xpc = "idle") =>
       /\ lastResponse # << >>
       /\ ~lastResponse[1].success
       /\ KindOf(lastResponse[1]) = UNKNOWN_ERROR


\* The attempts a send has started: those settled and the one under way.
AttemptsStarted == Len(returned) + (IF xpc = "call" THEN 1 ELSE 0)

\* C36: whatever the Executor does and whatever the options, a send starts
\* at most maxRetries + 1 attempts, and an attempt that returned success or
\* a failure of a kind outside retryableErrors is the last one started.
C36_AttemptsBounded ==
  entry = "send" =>
    /\ AttemptsStarted <= (IF opts.maxRetries >= 0 THEN opts.maxRetries + 1 ELSE 0)
    /\ \A i \in 1..Len(returned) :
         (returned[i] = "success" \/ returned[i] \in ErrorType \ opts.retryableErrors) =>
           i = AttemptsStarted

\* C36 (amended): a send starts at most maxRetries + 1 attempts, and an
\* attempt that returned success with a payload, or a failure of a kind
\* outside retryableErrors, is the last one started; a success without
\* payload is handled as a failure of kind UNKNOWN and may be retried.
C36_AttemptsBoundedByPayload ==
  LET n == Len(returned)
  IN entry = "send" =>
       /\ AttemptsStarted <= (IF opts.maxRetries >= 0 THEN opts.maxRetries + 1 ELSE 0)
       /\ \A i \in 1..n :
            returned[i] \in ErrorType \ opts.retryableErrors => i = AttemptsStarted
       /\ (n > 0 /\ returned[n] = "success" /\ HasPayload(lastCall[1].ret)) =>
            n = AttemptsStarted
       /\ (n > 0 /\ returned[n] = "success" /\ UNKNOWN_ERROR \notin opts.retryableErrors) =>
            n = AttemptsStarted

\* A second attempt is under way after the first returned success without a
\* payload, UNKNOWN being retryable; and the bound of attempts is met.
C36_Witness ==
  /\ entry = "send"
  /\ opts.maxRetries = 1
  /\ UNKNOWN_ERROR \in opts.retryableErrors
  /\ returned = <<"success">>
  /\ ~HasPayload(lastCall[1].ret)
  /\ xpc = "call"
  /\ AttemptsStarted = opts.maxRetries + 1

\* The sendChatMessage calls that have returned: all the calls made, but for
\* the one still in progress.
FinishedCalls ==
  IF xpc \in {"fetching", "reading"} THEN 1..(Current - 1) ELSE 1..Current

\* C37: when sendChatMessage has returned, on every path, the timer it armed
\* is cleared or has fired: no timer of a finished call remains armed.
C37_NoTimerLeftArmed ==
  xpc # "call" => \A i \in FinishedCalls : timers[i] \in {"cleared", "fired"}

\* C37, the part that holds: a call that returned the success envelope has
\* cleared its timer.
C37_SuccessClearsTimer ==
  (CallReturned /\ lastCall[1].ret.success) => timers[Current] = "cleared"

\* C37: a call returned a failure while its timer was still armed.
C37_ArmedAfterFailure ==
  CallReturned /\ ~lastCall[1].ret.success /\ timers[Current] = "armed"

\* The attempts and the waits of a send stay within the bounds its options
\* set.
WithinBounds ==
  /\ AttemptsStarted <= (IF opts.maxRetries >= 0 THEN opts.maxRetries + 1 ELSE 0)
  /\ Len(waits) <= (IF opts.maxRetries >= 0 THEN opts.maxRetries ELSE 0)

\* C38: every send terminates: when each HTTP attempt completes or is
\* aborted by its timeout, sendWebhookMessage eventually returns an
\* envelope, and it never makes more than maxRetries + 1 attempts nor more
\* than maxRetries waits.
C38_SendTerminates ==
  /\ [](entry = "send" => WithinBounds)
  /\ (entry = "send") ~> (entry = "send" /\ opc = "done" /\ result # << >> /\ WithinBounds)

\* C38 witness: a send with maxRetries = 2 has returned after three
\* attempts and two waits.
C38_Witness ==
  /\ entry = "send"
  /\ opc = "done"
  /\ result # << >>
  /\ opts.maxRetries = 2
  /\ Len(returned) = 3
  /\ Len(waits) = 2

\* Whether call i returned an identifier no earlier call returned or found
\* stored.
NewIdentifier(i) ==
  \A j \in 1..(i - 1) : scalls[j].ret # scalls[i].ret /\ scalls[j].before # scalls[i].ret

\* C32: over any sequence of getOrCreateSessionId, clearSession and
\* resetSession: getOrCreate returns the stored identifier when there is one
\* and otherwise stores and returns a new one, so getOrCreate calls with no
\* clear or reset between them return the same identifier; resetSession
\* stores a new identifier, which the next getOrCreate returns; after
\* clearSession nothing is stored and the next getOrCreate creates one.
C32_SessionIdentifier ==
  \A i \in 1..Len(scalls) :
    LET c == scalls[i]
    IN /\ c.before = (IF i = 1 THEN << >> ELSE scalls[i - 1].after)
       /\ i = Len(scalls) => sstore = c.after
       /\ c.op = "getOrCreate" =>
            /\ c.after = c.ret
            /\ IF c.before # << >> THEN c.ret = c.before ELSE NewIdentifier(i)
       /\ c.op = "reset" => c.after = c.ret /\ c.ret # << >> /\ NewIdentifier(i)
       /\ c.op = "clear" => c.after = << >>
       /\ \A j \in (i + 1)..Len(scalls) :
            (\A k \in (i + 1)..j : scalls[k].op = "getOrCreate") =>
               /\ c.op \in {"getOrCreate", "reset"} => scalls[j].ret = c.ret
               /\ c.op = "clear" => scalls[j].ret = scalls[i + 1].ret /\ NewIdentifier(i + 1)

\* C32 witness: a reset, a getOrCreate that returns the reset's identifier, a
\* clear, and a getOrCreate that creates a second identifier.
C32_Witness ==
  /\ Len(scalls) = 4
  /\ [i \in 1..4 |-> scalls[i].op] = <<"reset", "getOrCreate", "clear", "getOrCreate">>
  /\ scalls[2].ret = scalls[1].ret
  /\ scalls[4].ret # scalls[1].ret
  /\ sstore = scalls[4].ret

\* The latest entry of the conversation.
LastMessage == messages[Len(messages)]

\* handleSendMessage has added the entry of a failed send.
FailureShown ==
  /\ apc = "idle"
  /\ mpc = "threw"
  /\ opc = "done"
  /\ LastMessage.content.type = "error"

\* C39: when a send fails, the error entry added to the conversation has the
\* kind of the error of sendWebhookMessage's final envelope.
C39_EntryKindIsEnvelopeKind ==
  FailureShown => LastMessage.content.error[1].type = KindOf(result[1])

\* C39, what holds instead: the entry of a failed send is of kind UNKNOWN
\* whatever the kind of the final envelope, it carries the envelope's
\* message, and ErrorMessage shows it under the title for unknown errors.
C39_EntryKindIsUnknown ==
  FailureShown =>
    /\ LastMessage.content.error[1].type = UNKNOWN_ERROR
    /\ LastMessage.content.error[1].message = result[1].error[1].message
    /\ ErrorMessageDetails(LastMessage.content.error[1]).title = "Loi Khong Xac Dinh"

\* C39: a send failed with a SERVER failure and the entry shown is UNKNOWN.
C39_ServerShownAsUnknown ==
  /\ FailureShown
  /\ KindOf(result[1]) = SERVER_ERROR
  /\ LastMessage.content.error[1].type = UNKNOWN_ERROR

\* The step of handleSendMessage for a text that is not blank is taken.
Submits == apc = "idle" /\ apc' = "awaiting"

\* The step of handleSendMessage after its send settled is taken.
Settles == apc = "awaiting" /\ apc' = "idle"

\* C40: for a submitted text that is not blank, handleSendMessage appends
\* the user message and sets the loading flag, and after the send settles
\* appends exactly one bot entry (a reply on success, an error entry on
\* failure) and clears the loading flag; a blank text changes nothing (no
\* other step of the send touches the conversation or the flag); and the
\* loading flag is eventually cleared on every path.
C40_HandleSendMessage ==
  /\ [][/\ Submits =>
             /\ Trim(atext'[1]) # << >>
             /\ Len(messages') = Len(messages) + 1
             /\ SubSeq(messages', 1, Len(messages)) = messages
             /\ messages'[Len(messages')].type = "user"
             /\ messages'[Len(messages')].content.content = atext'
             /\ isLoading'
             /\ mpc' = "awaiting"
             /\ prompt' = Trim(atext'[1])
        /\ Settles =>
             /\ Len(messages') = Len(messages) + 1
             /\ SubSeq(messages', 1, Len(messages)) = messages
             /\ messages'[Len(messages')].type = "bot"
             /\ messages'[Len(messages')].content.type =
                  (IF mpc = "returned" THEN "text" ELSE "error")
             /\ ~isLoading'
        /\ (apc # "unmounted" /\ ~Submits /\ ~Settles) =>
             /\ messages' = messages
             /\ isLoading' = isLoading
        /\ (atext' # atext /\ Trim(atext'[1]) = << >>) =>
             /\ UNCHANGED <<apc, messages, isLoading, asession, entry, mpc, opc, xpc>>
       ]_vars
  /\ isLoading ~> ~isLoading

\* C40 witness: a text was submitted, its send failed, the conversation
\* holds the welcome, the user message and one error entry, and the loading
\* flag is cleared.
C40_Witness ==
  /\ apc = "idle"
  /\ Len(messages) = 3
  /\ messages[2].type = "user"
  /\ messages[2].content.content = atext
  /\ messages[3].type = "bot"
  /\ messages[3].content.type = "error"
  /\ mpc = "threw"
  /\ ~isLoading

\* A blank text was submitted after a send settled with a reply, and the
\* conversation is as the reply left it.
C40_BlankAfterReply ==
  /\ apc = "idle"
  /\ mpc = "returned"
  /\ atext # << >>
  /\ Trim(atext[1]) = << >>
  /\ Len(messages) = 3
  /\ messages[3].content.type = "text"
  /\ ~isLoading

=============================================================================
